---- MODULE Spec2Model ----
(***************************************************************************)
(* RQuick: distributed hypercube quicksort on strings                      *)
(* (src/src/sorter/RQuick/RQuick.hpp, the MPI variant, with the RBC        *)
(* variant of src/NeuKaDiS/KaDiS/src/RQuick/RQuick.hpp where it differs).  *)
(*                                                                         *)
(* A process is a rank of MPI_COMM_WORLD.  Each rank runs                  *)
(* _internal::sort and then _internal::sortRec.  A rank's position is      *)
(* pc[r]; the names of the positions are the phase names the code reports  *)
(* to the measuring tool.  A rank-local computation is executed together   *)
(* with the communication call that precedes it: the release of a barrier, *)
(* the return of a collective or the completion of a receive.              *)
(*                                                                         *)
(* The asserts of the source are not part of the model: sortRec and        *)
(* Data::Recv name the undeclared identifiers v and n inside assert(), so  *)
(* the code only builds with NDEBUG, where assert() expands to nothing.    *)
(***************************************************************************)
EXTENDS Integers, Sequences, FiniteSets, TLC

\* ------------------------------------------------------------------------
\* Bounds of the model
\* ------------------------------------------------------------------------

\* largest number of processes of a run
MaxP == 4

\* largest number of strings of a run, over all ranks
MaxTotal == 2

\* ------------------------------------------------------------------------
\* Program constants
\* ------------------------------------------------------------------------

\* the base tag splitterSort passes to RQuick::sort
tag == 11111

\* sizeof(uint64_t): the bytes of one index on the wire
sizeofIndex == 8

\* the number of local candidates selectSplitter hands to the median selection
numMedians == 2

\* The strings of the runs: "a" and "ab" as bytes (a = 1, b = 2); the
\* terminating 0 byte is added when a string is stored in a byte buffer.
\* the longest sequence and the largest element of the calls of
\* twoSequenceSelection
MaxLen == 3

MaxVal == 3

\* the bits of a word of the random generator: the bit store hands out the
\* bits of a word one by one and starts again after the last
SeedBits == 2

StringUniverse == {<<1>>, <<1, 2>>}

Ranks == 0 .. (MaxP - 1)

\* ------------------------------------------------------------------------
\* Helpers on sequences
\* ------------------------------------------------------------------------

Min(a, b) == IF a < b THEN a ELSE b

SeqOfN(x, n) == [i \in 1 .. n |-> x]

\* v[from .. to) with 0-based positions, as a pointer range of the code
Range(v, from, to) == SubSeq(v, from + 1, to)

RECURSIVE Concat(_)
Concat(ss) == IF ss = <<>> THEN <<>> ELSE Head(ss) \o Concat(Tail(ss))

RECURSIVE SeqSum(_)
SeqSum(s) == IF s = <<>> THEN 0 ELSE Head(s) + SeqSum(Tail(s))

\* the number of positions of s that hold x
Count(s, x) == Cardinality({i \in 1 .. Len(s) : s[i] = x})

\* ------------------------------------------------------------------------
\* Strings, byte buffers and containers
\*   String          [string, index]  a view: the bytes up to the
\*                                    terminator and the origin index
\*   Data            [rawStrings, indices]
\*   StringContainer [raw, strings]   the byte buffer and the view table
\* ------------------------------------------------------------------------

\* the byte at 1-based position i of a zero-terminated string
CharAt(s, i) == IF i <= Len(s) THEN s[i] ELSE 0

\* the loop of the comparators: the first position where the strings differ
\* or where both end
RECURSIVE FirstDiff(_, _, _)
FirstDiff(l, r, i) ==
    IF CharAt(l, i) = CharAt(r, i) /\ CharAt(l, i) # 0
    THEN FirstDiff(l, r, i + 1)
    ELSE i

StringComparator(lhs, rhs) ==
    LET i == FirstDiff(lhs.string, rhs.string, 1)
    IN  CharAt(lhs.string, i) < CharAt(rhs.string, i)

\* an indexed comparator that does not look at the index
IndexStringComparator_bytes(lhs, rhs) == StringComparator(lhs, rhs)

IndexStringComparator(lhs, rhs) ==
    LET i == FirstDiff(lhs.string, rhs.string, 1)
    IN  IF CharAt(lhs.string, i) = 0 /\ CharAt(rhs.string, i) = 0
        THEN lhs.index < rhs.index
        ELSE CharAt(lhs.string, i) < CharAt(rhs.string, i)

\* the comparator of the instantiation: Comp of sort, sortRec, merge
Comp(indexed, lhs, rhs) ==
    IF indexed THEN IndexStringComparator(lhs, rhs)
    ELSE StringComparator(lhs, rhs)

\* the copy loops of sortRec and middleMostElements: every string followed
\* by its terminator
RECURSIVE RawOf(_)
RawOf(strs) ==
    IF strs = <<>> THEN <<>>
    ELSE Head(strs).string \o <<0>> \o RawOf(Tail(strs))

IndicesOf(strs) == [i \in 1 .. Len(strs) |-> strs[i].index]

\* the byte strings of a buffer: cut after every 0 byte
RECURSIVE SplitRaw(_, _)
SplitRaw(raw, cur) ==
    IF raw = <<>> THEN <<>>
    ELSE IF Head(raw) = 0 THEN <<cur>> \o SplitRaw(Tail(raw), <<>>)
    ELSE SplitRaw(Tail(raw), Append(cur, Head(raw)))

\* StringContainer(rawStrings) and StringContainer(rawStrings, indices): the
\* i-th string of the buffer gets the i-th index
Views(raw, indices, indexed) ==
    LET strs == SplitRaw(raw, <<>>)
    IN  [i \in 1 .. Len(strs) |->
            [string |-> strs[i],
             index |-> IF indexed /\ i <= Len(indices) THEN indices[i] ELSE 0]]

EmptyData == [rawStrings |-> <<>>, indices |-> <<>>]

EmptyContainer == [raw |-> <<>>, strings |-> <<>>]

moveToContainer(d, indexed) ==
    [raw |-> d.rawStrings, strings |-> Views(d.rawStrings, d.indices, indexed)]

\* StringContainer::update
update(raw, indices, indexed) ==
    [raw |-> raw, strings |-> Views(raw, indices, indexed)]

\* little-endian bytes of a 64-bit index
RECURSIVE LittleEndian(_, _)
LittleEndian(x, n) ==
    IF n = 0 THEN <<>> ELSE <<x % 256>> \o LittleEndian(x \div 256, n - 1)

RECURSIVE FromLittleEndian(_)
FromLittleEndian(bytes) ==
    IF bytes = <<>> THEN 0 ELSE Head(bytes) + 256 * FromLittleEndian(Tail(bytes))

\* the bytes MPI sends for (indices.data(), indices.size() * sizeof(uint64_t))
IndexBytes(indices) ==
    Concat([i \in 1 .. Len(indices) |-> LittleEndian(indices[i], sizeofIndex)])

\* a vector of uint64_t after its first Len(bytes) bytes were overwritten
StoreBytes(vec, bytes) ==
    [i \in 1 .. Len(vec) |->
        IF i * sizeofIndex <= Len(bytes)
        THEN FromLittleEndian(SubSeq(bytes, (i - 1) * sizeofIndex + 1, i * sizeofIndex))
        ELSE vec[i]]

\* ------------------------------------------------------------------------
\* Library algorithms the code calls
\* ------------------------------------------------------------------------

\* std::lower_bound on v[first .. first + len): the binary search for the
\* first position whose element is not less than x
RECURSIVE lower_bound(_, _, _, _, _)
lower_bound(v, first, len, x, indexed) ==
    IF len = 0 THEN first
    ELSE LET half == len \div 2
             middle == first + half
         IN  IF Comp(indexed, v[middle + 1], x)
             THEN lower_bound(v, middle + 1, len - half - 1, x, indexed)
             ELSE lower_bound(v, first, half, x, indexed)

\* std::upper_bound on v[first .. first + len): the first position whose
\* element is greater than x
RECURSIVE upper_bound(_, _, _, _, _)
upper_bound(v, first, len, x, indexed) ==
    IF len = 0 THEN first
    ELSE LET half == len \div 2
             middle == first + half
         IN  IF Comp(indexed, x, v[middle + 1])
             THEN upper_bound(v, first, half, x, indexed)
             ELSE upper_bound(v, middle + 1, len - half - 1, x, indexed)

\* std::merge: the element of the second range is taken only when it is
\* less than the element of the first
RECURSIVE std_merge(_, _, _)
std_merge(a, b, indexed) ==
    IF a = <<>> THEN b
    ELSE IF b = <<>> THEN a
    ELSE IF Comp(indexed, Head(b), Head(a))
         THEN <<Head(b)>> \o std_merge(a, Tail(b), indexed)
         ELSE <<Head(a)>> \o std_merge(Tail(a), b, indexed)

\* a merge that appends the received strings to the kept ones
merge_appends(own, recv, indexed) == own \o recv

\* merge of RQuick.hpp
merge(own, recv, indexed) == std_merge(own, recv, indexed)

\* std::sort of sortRanges: ascending by index
RECURSIVE InsertByIndex(_, _)
InsertByIndex(sorted, x) ==
    IF sorted = <<>> THEN <<x>>
    ELSE IF x.index < Head(sorted).index THEN <<x>> \o sorted
    ELSE <<Head(sorted)>> \o InsertByIndex(Tail(sorted), x)

RECURSIVE SortByIndex(_)
SortByIndex(s) ==
    IF s = <<>> THEN <<>>
    ELSE InsertByIndex(SortByIndex(SubSeq(s, 1, Len(s) - 1)), s[Len(s)])

IsSortedBytes(s) ==
    \A i \in 1 .. (Len(s) - 1) : ~StringComparator(s[i + 1], s[i])

\* tlx radixsort_CI3 on the view table: the views in ascending byte order;
\* the order of views with equal bytes is not specified
radixsort_CI3(strings) ==
    LET n == Len(strings)
    IN  {s \in {[i \in 1 .. n |-> strings[p[i]]] : p \in Permutations(1 .. n)} :
            IsSortedBytes(s)}

\* the length of the longest common prefix of two strings
RECURSIVE CommonPrefix(_, _)
CommonPrefix(a, b) ==
    IF a # <<>> /\ b # <<>> /\ Head(a) = Head(b)
    THEN 1 + CommonPrefix(Tail(a), Tail(b))
    ELSE 0

\* the LCP array radixsort_CI3 fills for a StringLcpPtr
LcpArray(strings) ==
    [i \in 1 .. Len(strings) |->
        IF i = 1 THEN 0
        ELSE CommonPrefix(strings[i - 1].string, strings[i].string)]

\* ------------------------------------------------------------------------
\* DuplicateBreak: getDuplicateRanges and sortRanges
\* ------------------------------------------------------------------------

\* a getDuplicateRanges that returns the whole container as one range
getDuplicateRanges_whole(strings, lcp) ==
    IF Len(strings) = 0 THEN <<>> ELSE <<<<0, Len(strings)>>>>

\* the loop body of getDuplicateRanges for position i (0-based)
DuplicateStep(strings, lcp, intervals, i) ==
    LET curLcp == lcp[i + 1]
        curLength == Len(strings[i + 1].string)
        prevLength == Len(strings[i].string)
        last == Len(intervals)
    IN  IF curLength # curLcp \/ prevLength # curLcp
        THEN IF intervals[last][1] + 1 # i
             THEN Append([intervals EXCEPT ![last] = <<intervals[last][1], i>>],
                         <<i, i>>)
             ELSE [intervals EXCEPT ![last] = <<i, intervals[last][2]>>]
        ELSE intervals

RECURSIVE DuplicateLoop(_, _, _, _)
DuplicateLoop(strings, lcp, intervals, i) ==
    IF i >= Len(strings) THEN intervals
    ELSE DuplicateLoop(strings, lcp,
                       DuplicateStep(strings, lcp, intervals, i), i + 1)

getDuplicateRanges(strings, lcp) ==
    IF Len(strings) = 0 THEN <<>>
    ELSE LET intervals == DuplicateLoop(strings, lcp, <<<<0, 0>>>>, 1)
             last == Len(intervals)
         IN  [intervals EXCEPT ![last] = <<intervals[last][1], Len(strings)>>]

\* a DuplicateBreak that leaves the ranges of equal strings as they are
sortRanges_skipped(strings, ranges) == strings

RECURSIVE sortRanges(_, _)
sortRanges(strings, ranges) ==
    IF ranges = <<>> THEN strings
    ELSE LET begin == Head(ranges)[1]
             end == Head(ranges)[2]
             sorted == Range(strings, 0, begin)
                       \o SortByIndex(Range(strings, begin, end))
                       \o Range(strings, end, Len(strings))
         IN  sortRanges(sorted, Tail(ranges))

\* sortLocally(container): the view tables it can leave; the byte buffer is
\* not touched
sortLocally(strings, indexed) ==
    IF indexed
    THEN {sortRanges(s, getDuplicateRanges(s, LcpArray(s))) :
             s \in radixsort_CI3(strings)}
    ELSE radixsort_CI3(strings)

\* ------------------------------------------------------------------------
\* Splitter selection and splitter location
\* ------------------------------------------------------------------------

\* RandomBitStore with the generator std::mt19937_64& passed to it.  A store
\* is [known, seed, drawn]: with known the generator was seeded with seed and
\* drawn bits of its word were handed out; without, nothing is known about
\* the generator and every bit can come next.
Unseeded == [known |-> FALSE, seed |-> 0, drawn |-> 0]

Seeded(s) == [known |-> TRUE, seed |-> s, drawn |-> 0]

\* the n-th bit, from 0, of the word of the generator seeded with s
BitOf(s, n) == (s \div (2 ^ n)) % 2

\* getNextBit(gen): the bit the call can return, with the store after it
getNextBit(store) ==
    IF store.known
    THEN {[bit |-> BitOf(store.seed, store.drawn),
           store |-> [store EXCEPT !.drawn = (@ + 1) % SeedBits]]}
    ELSE {[bit |-> b, store |-> store] : b \in {0, 1}}

\* whether middleMostElements draws a bit from the bit store
drawsShift(size, k) ==
    size > k /\ ~((size % 2 = 0 /\ k % 2 = 0) \/ (size % 2 = 1 /\ k % 2 = 1))

\* middleMostElements(cont, k, async_gen, bit_gen); bit is the bit the bit
\* store returns when one is drawn
\* a middleMostElements that takes the first k elements
middleMostElements_first(cont, k, bit, indexed) ==
    LET picked == Range(cont.strings, 0, Min(k, Len(cont.strings)))
    IN  [rawStrings |-> RawOf(picked),
         indices |-> IF indexed THEN IndicesOf(picked) ELSE <<>>]

middleMostElements(cont, k, bit, indexed) ==
    LET size == Len(cont.strings)
    IN  IF size <= k
        THEN [rawStrings |-> cont.raw,
              indices |-> IF indexed THEN IndicesOf(cont.strings) ELSE <<>>]
        ELSE LET offset == (size - k) \div 2
                 shift == IF drawsShift(size, k) THEN bit ELSE 0
                 begin == offset + shift
                 picked == Range(cont.strings, begin, begin + k)
             IN  [rawStrings |-> RawOf(picked),
                  indices |-> IF indexed THEN IndicesOf(picked) ELSE <<>>]

\* the draws of a call that takes a bit only when needed: the bit 0 and the
\* store as it is when no bit is taken
drawIf(needed, store) ==
    IF needed THEN getNextBit(store) ELSE {[bit |-> 0, store |-> store]}

\* the local medians a rank can hand to the median selection, each with the
\* bit store of the rank after the call
localMedians(cont, store, indexed) ==
    {[data |-> middleMostElements(cont, numMedians, d.bit, indexed),
      store |-> d.store] :
        d \in drawIf(drawsShift(Len(cont.strings), numMedians), store)}

\* MiddleMostPicker of the median selection on a merged candidate list, with
\* the bit store of the merging rank
pickMiddle(list, k, store) ==
    LET size == Len(list)
    IN  IF size <= k THEN {[list |-> list, store |-> store]}
        ELSE {[list |-> Range(list, (size - k) \div 2 + d.bit,
                              (size - k) \div 2 + d.bit + k),
               store |-> d.store] :
                 d \in drawIf(drawsShift(size, k), store)}

\* the binary reduction tree of BinTreeMedianSelection::select below the
\* rank lo, over span ranks: the candidate lists the root of the subtree can
\* end with, and the bit stores of the ranks after it; the root of a subtree
\* merges and picks with its own bit store
RECURSIVE reduceTree(_, _, _, _, _, _)
reduceTree(cands, stores, lo, span, k, indexed) ==
    IF span = 1 THEN {[list |-> cands[lo + 1], stores |-> stores]}
    ELSE LET half == span \div 2
         IN  IF lo + half >= Len(cands)
             THEN reduceTree(cands, stores, lo, half, k, indexed)
             ELSE UNION {UNION {
                     {[list |-> p.list,
                       stores |-> [b.stores EXCEPT ![lo + 1] = p.store]] :
                         p \in pickMiddle(std_merge(a.list, b.list, indexed), k,
                                          b.stores[lo + 1])} :
                     b \in reduceTree(cands, a.stores, lo + half, half, k, indexed)} :
                     a \in reduceTree(cands, stores, lo, half, k, indexed)}

RECURSIVE roundUpToPowerOfTwo(_)
roundUpToPowerOfTwo(n) == IF n <= 1 THEN 1 ELSE 2 * roundUpToPowerOfTwo((n + 1) \div 2)

\* BinTreeMedianSelection::select: the buffers the call can return on every
\* rank of the group, given the candidates and the bit stores of the ranks in
\* rank order, each with the bit stores after the call
select(medians, stores, k, indexed) ==
    LET cands == [i \in 1 .. Len(medians) |->
                     Views(medians[i].rawStrings, medians[i].indices, indexed)]
    IN  {[res |-> [rawStrings |-> RawOf(t.list),
                   indices |-> IF indexed THEN IndicesOf(t.list) ELSE <<>>],
          stores |-> t.stores] :
            t \in reduceTree(cands, stores, 0, roundUpToPowerOfTwo(Len(cands)),
                             k, indexed)}

\* String pivotString(pivot.rawStrings.data(), pivot.rawStrings.size() - 1)
\* with pivotString.index = pivot.indices.front(): the view reads up to the
\* first 0 byte.  For an empty buffer the view is never read (see Partition).
pivotStringOf(pivot, indexed) ==
    IF pivot.rawStrings = <<>> THEN [string |-> <<>>, index |-> 0]
    ELSE [string |-> SubSeq(pivot.rawStrings, 1, Len(pivot.rawStrings) - 1),
          index |-> IF indexed /\ pivot.indices # <<>> THEN pivot.indices[1] ELSE 0]

\* whether locateSplitter draws a bit from the bit store
drawsRound(size, robust) == robust /\ size % 2 = 1

\* a locateSplitter that splits behind the elements equal to the splitter
locateSplitter_behindEqual(v, splitter, bit, robust, indexed) ==
    upper_bound(v, 0, Len(v), splitter, indexed)

\* a locateSplitter that always rounds the middle down
locateSplitter_roundsDown(v, splitter, bit, robust, indexed) ==
    LET begin_equal_els == lower_bound(v, 0, Len(v), splitter, indexed)
        end_equal_els == upper_bound(v, begin_equal_els,
                                     Len(v) - begin_equal_els, splitter, indexed)
    IN  IF robust /\ begin_equal_els < Len(v) \div 2
        THEN Min(Len(v) \div 2, end_equal_els)
        ELSE begin_equal_els

\* a locateSplitter without tie-breaking
locateSplitter_noTieBreak(v, splitter, bit, robust, indexed) ==
    lower_bound(v, 0, Len(v), splitter, indexed)

\* locateSplitter(v, comp, splitter, gen, bit_store, is_robust): the split
\* position, 0-based
locateSplitter(v, splitter, bit, robust, indexed) ==
    LET begin_equal_els == lower_bound(v, 0, Len(v), splitter, indexed)
        end_equal_els == upper_bound(v, begin_equal_els,
                                     Len(v) - begin_equal_els, splitter, indexed)
        opt_split == (Len(v) \div 2)
                     + (IF Len(v) % 2 = 1 /\ bit = 1 THEN 1 ELSE 0)
    IN  IF ~robust THEN begin_equal_els
        ELSE IF begin_equal_els < opt_split
             THEN Min(opt_split, end_equal_els)
             ELSE begin_equal_els

\* ------------------------------------------------------------------------
\* Communicators: a communicator is the sequence of the world ranks of its
\* members, in the order of their ranks in it
\* ------------------------------------------------------------------------

\* tlx::integer_log2_floor
RECURSIVE integer_log2_floor(_)
integer_log2_floor(n) == IF n <= 1 THEN 0 ELSE 1 + integer_log2_floor(n \div 2)

RECURSIVE round_down_to_power_of_two(_)
round_down_to_power_of_two(n) ==
    IF n <= 1 THEN n ELSE 2 * round_down_to_power_of_two(n \div 2)

is_power_of_two(n) == n >= 1 /\ round_down_to_power_of_two(n) = n

\* MPI_Comm_rank
rankIn(c, r) == (CHOOSE i \in 1 .. Len(c) : c[i] = r) - 1

Members(c) == {c[i] : i \in 1 .. Len(c)}

RECURSIVE InsertByKey(_, _, _)
InsertByKey(sorted, r, key) ==
    IF sorted = <<>> THEN <<r>>
    ELSE IF key[r] < key[Head(sorted)] THEN <<r>> \o sorted
    ELSE <<Head(sorted)>> \o InsertByKey(Tail(sorted), r, key)

RECURSIVE SortByKey(_, _)
SortByKey(c, key) ==
    IF c = <<>> THEN <<>>
    ELSE InsertByKey(SortByKey(SubSeq(c, 1, Len(c) - 1), key), c[Len(c)], key)

\* a split that puts the ranks of all colours into one communicator
MPI_Comm_split_oneColour(c, colour, key, r) == SortByKey(c, key)

\* MPI_Comm_split(comm, colour, key, &newcomm) as seen by member r: the
\* members that gave the colour of r, ordered by key, ties by old rank
MPI_Comm_split(c, colour, key, r) ==
    SortByKey(SelectSeq(c, LAMBDA m : colour[m] = colour[r]), key)

\* RBC::Comm_create_group(comm, &subcomm, first, last)
Comm_create_group(c, first, last) == SubSeq(c, first + 1, last + 1)

\* ------------------------------------------------------------------------
\* State
\* ------------------------------------------------------------------------

VARIABLES
    worldSize,      \* the size of the communicator passed to sort
    isIndexed,      \* Data::isIndexed_ of the instantiation
    is_robust,      \* the is_robust argument of sort
    input,          \* the Data every rank passed to sort
    pc,             \* the position of every rank
    comm,           \* the communicator every rank currently uses
    colour,         \* the colour a rank passed to MPI_Comm_split
    data,           \* the data parameter of sort
    container,      \* container of sort, stringContainer of sortRec
    pivot,          \* the buffer selectSplitter returned
    separator,      \* the position locateSplitter returned
    exchangeData,   \* the Data a rank builds for its partner
    sentData,       \* what the last Data::exchange of the rank sent
    recvData,       \* what the last Data::exchange of the rank returned
    network,        \* the messages sent and not yet received
    bit_store,      \* bit_store of sort with async_gen, the generator
    firstRun,       \* the containers an earlier call of sort returned
    twoSeq,         \* the frame of a call of twoSequenceSelection
    exchangeCall,   \* the frame of a call of Data::exchange, sizes only
    shuffleCall,    \* the frames of the calls of shuffle by a group
    locateCall,     \* the frame of a call of locateSplitter
    pickCall,       \* the frame of a call of middleMostElements
    pipelineCall,   \* the frames of the calls of AllToAllHashValuesPipeline::alltoallv
    mergeCall,      \* the frames of the threads of a call of merge with OpenMP
    sortLocallyCall, \* the frame of a call of sortLocally, indexed
    compareCall,    \* the frame of a call of a comparator or of indexStringCompare
    isSortedCall,   \* the frames of the calls of is_sorted by the PEs
    intervalCall    \* the frame of a call of computeIntervalSizes

\* what a run of sort never changes: the group, the instantiation and the
\* arguments of the call
args == <<worldSize, isIndexed, is_robust, input>>

\* the state of a run of sort
sortVars == <<worldSize, isIndexed, is_robust, input, pc, comm, colour, data,
              container, pivot, separator, exchangeData, sentData, recvData,
              network, bit_store, firstRun>>

\* the state of the calls of the functions that are checked on their own
pureVars == <<twoSeq, exchangeCall, shuffleCall, locateCall, pickCall, pipelineCall, mergeCall, sortLocallyCall, compareCall, isSortedCall, intervalCall>>

vars == <<sortVars, pureVars>>

\* no call of a function that is checked on its own is in progress
NoCall == [pc |-> "none"]

\* no earlier call of sort has returned
NoRun == [done |-> FALSE, container |-> <<>>]

World == 0 .. (worldSize - 1)

WorldComm == [i \in 1 .. worldSize |-> i - 1]

\* ------------------------------------------------------------------------
\* Inputs
\* ------------------------------------------------------------------------

\* the ways to cut n strings into the consecutive local inputs of P ranks
Owners(n, P) ==
    {o \in [1 .. n -> 0 .. (P - 1)] : \A i \in 1 .. (n - 1) : o[i] <= o[i + 1]}

\* the local input of rank r: its part of the strings g; in indexed mode the
\* i-th string has the origin index idx[i]
LocalInput(g, o, idx, indexed, r) ==
    LET mine == SelectSeq([i \in 1 .. Len(g) |-> i], LAMBDA i : o[i] = r)
        strs == [j \in 1 .. Len(mine) |-> [string |-> g[mine[j]], index |-> 0]]
    IN  [rawStrings |-> RawOf(strs),
         indices |-> IF indexed THEN [j \in 1 .. Len(mine) |-> idx[mine[j]]]
                     ELSE <<>>]

\* every distribution of at most MaxTotal strings over P ranks; in indexed
\* mode with every assignment of the distinct origin indices 1 .. n
Inputs(P, indexed) ==
    UNION {{[r \in Ranks |-> LocalInput(g, o, idx, indexed, r)] :
                g \in [1 .. n -> StringUniverse],
                o \in Owners(n, P),
                idx \in IF indexed THEN Permutations(1 .. n)
                        ELSE {[i \in 1 .. n |-> 0]}} :
           n \in 0 .. MaxTotal}

\* every rank of the group is at the first statement of sort
pcAtCall ==
    [r \in Ranks |->
        IF r < worldSize THEN "Splitter_baseCase_Barrier" ELSE "none"]

commAtCall == [r \in Ranks |-> IF r < worldSize THEN WorldComm ELSE <<>>]

\* the ranks of the group call sort(async_gen, data, ..., comm, ..., is_robust)
Called ==
    /\ pc = pcAtCall
    /\ comm = commAtCall
    /\ colour = [r \in Ranks |-> 0]
    /\ data = input
    /\ container = [r \in Ranks |-> EmptyContainer]
    /\ pivot = [r \in Ranks |-> EmptyData]
    /\ separator = [r \in Ranks |-> 0]
    /\ exchangeData = [r \in Ranks |-> EmptyData]
    /\ sentData = [r \in Ranks |-> EmptyData]
    /\ recvData = [r \in Ranks |-> EmptyData]
    /\ network = {}

Init ==
    /\ worldSize \in 1 .. MaxP
    /\ isIndexed \in BOOLEAN
    /\ is_robust \in BOOLEAN
    /\ input \in Inputs(worldSize, isIndexed)
    /\ Called
    /\ bit_store = [r \in Ranks |-> Unseeded]
    /\ firstRun = NoRun
    /\ twoSeq = NoCall
    /\ exchangeCall = NoCall
    /\ shuffleCall = NoCall
    /\ locateCall = NoCall
    /\ pickCall = NoCall
    /\ pipelineCall = NoCall
    /\ mergeCall = NoCall
    /\ sortLocallyCall = NoCall
    /\ compareCall = NoCall
    /\ isSortedCall = NoCall
    /\ intervalCall = NoCall

\* ------------------------------------------------------------------------
\* Messages
\* ------------------------------------------------------------------------

\* a message of MPI_Send or MPI_Isend: source and target are ranks of c
Msg(c, source, target, t, bytes) ==
    [comm |-> c, source |-> source, target |-> target, tag |-> t, bytes |-> bytes]

\* a probe that matches a message of source whatever its tag
Matching_anyTag(c, source, target, t) ==
    {m \in network : m.comm = c /\ m.source = source /\ m.target = target}

\* the messages MPI_Probe(source, t, c) of rank target can match
Matching(c, source, target, t) ==
    {m \in network :
        m.comm = c /\ m.source = source /\ m.target = target /\ m.tag = t}

\* the messages of rank source in c that no receive has taken
Pending(c, source) == {m \in network : m.comm = c /\ m.source = source}

\* Data::Send and the sends of Data::exchange: the byte buffer under tag and,
\* in indexed mode, the indices under tag + 1
rawMsg(c, source, target, d) == Msg(c, source, target, tag, d.rawStrings)

indexMsg(c, source, target, d) ==
    Msg(c, source, target, tag + 1, IndexBytes(d.indices))

\* a receive that replaces the buffer by the received bytes
appendReceived_overwrites(buffer, bytes) == bytes

\* Data::IReceiveAppend: rawStrings.resize(rawStrings.size() + recv_cnt) and
\* the receive of recv_cnt bytes behind the old end
appendReceived(buffer, bytes) == buffer \o bytes

\* returnData.indices.resize(recv_indices_size) followed by the receive of
\* recv_indices_size bytes into it
receivedIndices(bytes) == StoreBytes(SeqOfN(0, Len(bytes)), bytes)

\* ------------------------------------------------------------------------
\* Collectives
\* ------------------------------------------------------------------------

\* every member of c has called the collective at position p on c
AllIn(c, p) == c # <<>> /\ \A m \in Members(c) : pc[m] = p /\ comm[m] = c

RECURSIVE SeqProduct(_)
SeqProduct(sets) ==
    IF sets = <<>> THEN {<<>>}
    ELSE {<<h>> \o t : h \in Head(sets), t \in SeqProduct(Tail(sets))}

\* one outcome for every member of c, in rank order
Outcomes(perMember) ==
    UNION {SeqProduct(sets) : sets \in {perMember}}

\* the outcome of member r in a choice of Outcomes
Pick(choice, c, r) == choice[rankIn(c, r) + 1]

\* the key every rank passes to MPI_Comm_split: its rank in c
KeyOf(c) == [r \in Ranks |-> IF r \in Members(c) THEN rankIn(c, r) ELSE 0]

\* pow of sort
PowOf(c) == round_down_to_power_of_two(Len(c))

isReceiver(c, r) == rankIn(c, r) < Len(c) - PowOf(c)

isExile(c, r) == rankIn(c, r) >= PowOf(c)

\* every rank takes itself for a rank of the left group
is_left_group_always(c, r) == TRUE

is_left_group(c, r) == rankIn(c, r) < Len(c) \div 2

\* a partner that is the next rank of the group
partnerOf_next(myrank, nprocs) == (myrank + 1) % nprocs

\* partner of sortRec
partnerOf(myrank, nprocs) == (myrank + (nprocs \div 2)) % nprocs

\* ------------------------------------------------------------------------
\* sort: base case and fold to a power of two
\* ------------------------------------------------------------------------

\* the barrier Splitter_baseCase_Barrier is passed
BaseCaseBarrier(c) ==
    /\ AllIn(c, "Splitter_baseCase_Barrier")
    /\ pc' = [r \in Ranks |->
                 IF r \notin Members(c) THEN pc[r]
                 ELSE IF Len(c) = 1 THEN "Splitter_baseCase"
                 ELSE "Splitter_move_to_pow_of_two_t_Barrier"]
    /\ UNCHANGED <<pureVars, firstRun, args, bit_store, comm, colour, data,
                   container, pivot, separator, exchangeData, sentData,
                   recvData, network>>

\* nprocs == 1: sortLocally on the container and return
BaseCase(r) ==
    /\ pc[r] = "Splitter_baseCase"
    /\ LET c == moveToContainer(data[r], isIndexed)
       IN  \E s \in sortLocally(c.strings, isIndexed) :
               container' = [container EXCEPT ![r] = [c EXCEPT !.strings = s]]
    /\ data' = [data EXCEPT ![r].rawStrings = <<>>]
    /\ pc' = [pc EXCEPT ![r] = "returned"]
    /\ UNCHANGED <<pureVars, firstRun, args, bit_store, comm, colour, pivot,
                   separator, exchangeData, sentData, recvData, network>>

\* a fold in which the ranks that neither send nor receive leave out
\* MPI_Comm_split
FoldEntry_skipsSplit(c, r) ==
    IF PowOf(c) = Len(c) \/ ~(isReceiver(c, r) \/ isExile(c, r))
    THEN "splitter_shuffle_Barrier"
    ELSE IF isReceiver(c, r) THEN "Splitter_move_to_pow_of_two_t"
    ELSE "MPI_Send"

\* where a rank of c is after the barrier Splitter_move_to_pow_of_two_t_Barrier
\* and the code up to its first blocking call
FoldEntry(c, r) ==
    IF PowOf(c) = Len(c) THEN "splitter_shuffle_Barrier"
    ELSE IF isReceiver(c, r) THEN "Splitter_move_to_pow_of_two_t"
    ELSE IF isExile(c, r) THEN "MPI_Send"
    ELSE "MPI_Comm_split"

\* StringContainer container = data.moveToContainer(); data.clear()
containerOf(r) == moveToContainer(data[r], isIndexed)

\* the barrier Splitter_move_to_pow_of_two_t_Barrier is passed.  With a power
\* of two every rank moves its data to the container; otherwise the receivers
\* probe for the exile's data, the exiles start data.Send with the MPI_Send
\* of the byte buffer, the other ranks call MPI_Comm_split(comm, 0, myrank).
FoldBarrier(c) ==
    /\ AllIn(c, "Splitter_move_to_pow_of_two_t_Barrier")
    /\ pc' = [r \in Ranks |-> IF r \in Members(c) THEN FoldEntry(c, r) ELSE pc[r]]
    /\ network' = network \cup
           {rawMsg(c, rankIn(c, r), rankIn(c, r) - PowOf(c), data[r]) :
               r \in {m \in Members(c) : FoldEntry(c, m) = "MPI_Send"}}
    /\ container' = [r \in Ranks |->
                        IF r \in Members(c) /\ PowOf(c) = Len(c)
                        THEN containerOf(r) ELSE container[r]]
    /\ data' = [r \in Ranks |->
                   IF r \in Members(c) /\ PowOf(c) = Len(c)
                   THEN EmptyData ELSE data[r]]
    /\ colour' = [r \in Ranks |-> IF r \in Members(c) THEN 0 ELSE colour[r]]
    /\ UNCHANGED <<pureVars, firstRun, args, bit_store, comm, pivot,
                   separator, exchangeData, sentData, recvData>>

\* data.IReceiveAppend(comm, source, tag): the byte buffer of the exile; not
\* indexed: then MPI_Comm_split(comm, 0, myrank)
FoldReceive(r) ==
    /\ pc[r] = "Splitter_move_to_pow_of_two_t"
    /\ LET myrank == rankIn(comm[r], r)
           source == PowOf(comm[r]) + myrank
       IN  \E m \in Matching(comm[r], source, myrank, tag) :
               /\ data' = [data EXCEPT
                              ![r].rawStrings = appendReceived(@, m.bytes)]
               /\ network' = network \ {m}
    /\ pc' = [pc EXCEPT ![r] = IF isIndexed THEN "IReceiveAppend"
                               ELSE "MPI_Comm_split"]
    /\ UNCHANGED <<pureVars, firstRun, args, bit_store, comm, colour,
                   container, pivot, separator, exchangeData, sentData,
                   recvData>>

\* data.IReceiveAppend, indexed: the indices of the exile; then
\* MPI_Comm_split(comm, 0, myrank)
FoldReceiveIndices(r) ==
    /\ pc[r] = "IReceiveAppend"
    /\ LET myrank == rankIn(comm[r], r)
           source == PowOf(comm[r]) + myrank
       IN  \E m \in Matching(comm[r], source, myrank, tag + 1) :
               /\ data' = [data EXCEPT
                              ![r].indices = @ \o receivedIndices(m.bytes)]
               /\ network' = network \ {m}
    /\ pc' = [pc EXCEPT ![r] = "MPI_Comm_split"]
    /\ UNCHANGED <<pureVars, firstRun, args, bit_store, comm, colour,
                   container, pivot, separator, exchangeData, sentData,
                   recvData>>

\* data.Send, indexed: the first MPI_Send has returned, MPI_Send of the indices
FoldSendIndices(r) ==
    /\ pc[r] = "MPI_Send"
    /\ isIndexed
    /\ Pending(comm[r], rankIn(comm[r], r)) = {}
    /\ LET myrank == rankIn(comm[r], r)
       IN  network' = network \cup
               {indexMsg(comm[r], myrank, myrank - PowOf(comm[r]), data[r])}
    /\ pc' = [pc EXCEPT ![r] = "MPI_Send_indices"]
    /\ UNCHANGED <<pureVars, firstRun, args, bit_store, comm, colour, data,
                   container, pivot, separator, exchangeData, sentData,
                   recvData>>

\* data.Send has returned: data.clear() and MPI_Comm_split(comm, 1, myrank)
FoldSendDone(r) ==
    /\ \/ pc[r] = "MPI_Send" /\ ~isIndexed
       \/ pc[r] = "MPI_Send_indices"
    /\ Pending(comm[r], rankIn(comm[r], r)) = {}
    /\ data' = [data EXCEPT ![r] = EmptyData]
    /\ colour' = [colour EXCEPT ![r] = 1]
    /\ pc' = [pc EXCEPT ![r] = "MPI_Comm_split"]
    /\ UNCHANGED <<pureVars, firstRun, args, bit_store, comm, container,
                   pivot, separator, exchangeData, sentData, recvData, network>>

\* MPI_Comm_split of the fold returns on the members of c: the exiles return
\* an empty container from sort, the others move their data to the container
\* and go on with sub_comm
FoldSplit(c) ==
    /\ AllIn(c, "MPI_Comm_split")
    /\ comm' = [r \in Ranks |->
                   IF r \in Members(c) THEN MPI_Comm_split(c, colour, KeyOf(c), r)
                   ELSE comm[r]]
    /\ pc' = [r \in Ranks |->
                 IF r \notin Members(c) THEN pc[r]
                 ELSE IF isExile(c, r) THEN "returned"
                 ELSE "splitter_shuffle_Barrier"]
    /\ container' = [r \in Ranks |->
                        IF r \notin Members(c) THEN container[r]
                        ELSE IF isExile(c, r) THEN EmptyContainer
                        ELSE containerOf(r)]
    /\ data' = [r \in Ranks |-> IF r \in Members(c) THEN EmptyData ELSE data[r]]
    /\ UNCHANGED <<pureVars, firstRun, args, bit_store, colour, pivot,
                   separator, exchangeData, sentData, recvData, network>>

\* the barrier splitter_shuffle_Barrier is passed; the shuffle is commented
\* out, the next call is the barrier Splitter_sortLocally_Barrier
ShuffleBarrier(c) ==
    /\ AllIn(c, "splitter_shuffle_Barrier")
    /\ pc' = [r \in Ranks |->
                 IF r \in Members(c) THEN "Splitter_sortLocally_Barrier" ELSE pc[r]]
    /\ UNCHANGED <<pureVars, firstRun, args, bit_store, comm, colour, data,
                   container, pivot, separator, exchangeData, sentData,
                   recvData, network>>

\* the view tables sortLocally(container) can leave on rank r
sortLocallyOf(r) == sortLocally(container[r].strings, isIndexed)

\* the barrier Splitter_sortLocally_Barrier is passed and every rank sorts
\* its container; sortRec is entered
SortLocally(c) ==
    /\ AllIn(c, "Splitter_sortLocally_Barrier")
    /\ \E choice \in Outcomes([i \in 1 .. Len(c) |-> sortLocallyOf(c[i])]) :
           container' = [r \in Ranks |->
                            IF r \in Members(c)
                            THEN [container[r] EXCEPT !.strings = Pick(choice, c, r)]
                            ELSE container[r]]
    /\ pc' = [r \in Ranks |->
                 IF r \in Members(c) THEN "Splitter_median_select_Barrier"
                 ELSE pc[r]]
    /\ UNCHANGED <<pureVars, firstRun, args, bit_store, comm, colour, data,
                   pivot, separator, exchangeData, sentData, recvData, network>>

\* ------------------------------------------------------------------------
\* sortRec: one level on the communicator c
\* ------------------------------------------------------------------------

\* the barrier Splitter_median_select_Barrier is passed
MedianSelectBarrier(c) ==
    /\ AllIn(c, "Splitter_median_select_Barrier")
    /\ pc' = [r \in Ranks |->
                 IF r \in Members(c) THEN "Splitter_median_select" ELSE pc[r]]
    /\ UNCHANGED <<pureVars, firstRun, args, bit_store, comm, colour, data,
                   container, pivot, separator, exchangeData, sentData,
                   recvData, network>>

\* the local medians rank r can hand to the median selection
localMediansOf(r) == localMedians(container[r], bit_store[r], isIndexed)

\* the Data, and the bit stores, of the members of c in a choice of
\* localMediansOf
mediansOf(choice) == [i \in 1 .. Len(choice) |-> choice[i].data]

storesOf(choice) == [i \in 1 .. Len(choice) |-> choice[i].store]

\* the bit stores of all ranks when the members of c have the stores, in
\* rank order
storesAfter(c, stores) ==
    [r \in Ranks |-> IF r \in Members(c) THEN Pick(stores, c, r) ELSE bit_store[r]]

\* pivot.indices.front() on an empty vector and pivot.rawStrings.size() - 1
\* on an empty buffer: the view built from them is never read, since an
\* empty pivot means that no rank of the group holds a string, but the read
\* of front() is undefined: the rank goes on or dies
mayAbort(res) == isIndexed /\ res.indices = <<>>

\* a selectSplitter that returns the local medians of the rank
SelectSplitter_local(c) ==
    /\ AllIn(c, "Splitter_median_select")
    /\ \E medians \in Outcomes([i \in 1 .. Len(c) |-> localMediansOf(c[i])]) :
           /\ pivot' = [r \in Ranks |->
                           IF r \in Members(c) THEN Pick(medians, c, r).data
                           ELSE pivot[r]]
           /\ bit_store' = storesAfter(c, storesOf(medians))
    /\ pc' = [r \in Ranks |->
                 IF r \in Members(c) THEN "Splitter_partition_Barrier" ELSE pc[r]]
    /\ UNCHANGED <<pureVars, firstRun, args, comm, colour, data, container, separator,
                   exchangeData, sentData, recvData, network>>

\* selectSplitter returns on the members of c: every rank gets the buffer
\* that BinTreeMedianSelection::select delivers for the local medians, builds
\* pivotString and enters the barrier Splitter_partition_Barrier
SelectSplitter(c) ==
    /\ AllIn(c, "Splitter_median_select")
    /\ \E medians \in Outcomes([i \in 1 .. Len(c) |-> localMediansOf(c[i])]) :
       \E given \in {mediansOf(medians)}, stores \in {storesOf(medians)} :
       \E sel \in select(given, stores, numMedians, isIndexed) :
       \E dead \in IF mayAbort(sel.res) THEN SUBSET Members(c) ELSE {{}} :
           /\ pivot' = [r \in Ranks |->
                           IF r \in Members(c) THEN sel.res ELSE pivot[r]]
           /\ bit_store' = storesAfter(c, sel.stores)
           /\ pc' = [r \in Ranks |->
                        IF r \in dead THEN "aborted"
                        ELSE IF r \in Members(c) THEN "Splitter_partition_Barrier"
                        ELSE pc[r]]
    /\ UNCHANGED <<pureVars, firstRun, args, comm, colour, data,
                   container, separator, exchangeData, sentData, recvData,
                   network>>

\* a rank that keeps the strings it sends
ownRange_keepsAll(v, sep, left) == v

\* the range of the view table a rank keeps, given the split position
ownRange(v, sep, left) == IF left THEN Range(v, 0, sep) ELSE Range(v, sep, Len(v))

\* a rank that sends the large elements whatever its group
sendRange_large(v, sep, left) == Range(v, sep, Len(v))

\* the range of the view table a rank sends to its partner
sendRange(v, sep, left) == IF left THEN Range(v, sep, Len(v)) ELSE Range(v, 0, sep)

\* the copy of the strings to send into exchangeData
exchangeDataOf(send, indexed) ==
    [rawStrings |-> RawOf(send),
     indices |-> IF indexed THEN IndicesOf(send) ELSE <<>>]

\* the positions locateSplitter can return on rank r, for every bit the
\* bit store can return, each with the bit store after the call
separatorOf(r) ==
    {[separator |-> locateSplitter(container[r].strings, pivotString, d.bit,
                                   is_robust, isIndexed),
      store |-> d.store] :
        pivotString \in {pivotStringOf(pivot[r], isIndexed)},
        d \in drawIf(drawsRound(Len(container[r].strings), is_robust),
                     bit_store[r])}

\* the separator of rank r and the Data built for the partner
partitionOf(r) ==
    {[separator |-> sep.separator,
      store |-> sep.store,
      exchangeData |->
          exchangeDataOf(sendRange(container[r].strings, sep.separator,
                                   is_left_group(comm[r], r)),
                         isIndexed)] :
        sep \in separatorOf(r)}

\* the barrier Splitter_partition_Barrier is passed and every rank partitions
\* its container
Partition(c) ==
    /\ AllIn(c, "Splitter_partition_Barrier")
    /\ \E choice \in Outcomes([i \in 1 .. Len(c) |-> partitionOf(c[i])]) :
           /\ separator' = [r \in Ranks |->
                               IF r \in Members(c) THEN Pick(choice, c, r).separator
                               ELSE separator[r]]
           /\ exchangeData' = [r \in Ranks |->
                                  IF r \in Members(c)
                                  THEN Pick(choice, c, r).exchangeData
                                  ELSE exchangeData[r]]
           /\ bit_store' = storesAfter(c, storesOf(choice))
    /\ pc' = [r \in Ranks |->
                 IF r \in Members(c) THEN "Splitter_exchange_Barrier" ELSE pc[r]]
    /\ UNCHANGED <<pureVars, firstRun, args, comm, colour, data,
                   container, pivot, sentData, recvData, network>>

\* the messages Data::exchange of rank r sends to its partner: MPI_Isend of
\* the byte buffer and, in indexed mode, of the indices
exchangeSends(c, r) ==
    LET myrank == rankIn(c, r)
        partner == partnerOf(myrank, Len(c))
    IN  {rawMsg(c, myrank, partner, exchangeData[r])}
        \cup IF isIndexed THEN {indexMsg(c, myrank, partner, exchangeData[r])}
             ELSE {}

\* the barrier Splitter_exchange_Barrier is passed and every rank posts the
\* sends of Data::exchange
ExchangeSend(c) ==
    /\ AllIn(c, "Splitter_exchange_Barrier")
    /\ network' = network \cup UNION {exchangeSends(c, r) : r \in Members(c)}
    /\ sentData' = [r \in Ranks |->
                       IF r \in Members(c) THEN exchangeData[r] ELSE sentData[r]]
    /\ pc' = [r \in Ranks |-> IF r \in Members(c) THEN "MPI_Probe" ELSE pc[r]]
    /\ UNCHANGED <<pureVars, firstRun, args, bit_store, comm, colour, data,
                   container, pivot, separator, exchangeData, recvData>>

\* Data::exchange, the receives: MPI_Probe and MPI_Irecv for the byte buffer
\* and, in indexed mode, for the indices
ExchangeRecv(r) ==
    /\ pc[r] = "MPI_Probe"
    /\ LET myrank == rankIn(comm[r], r)
           partner == partnerOf(myrank, Len(comm[r]))
       IN  \E m \in Matching(comm[r], partner, myrank, tag) :
               IF isIndexed
               THEN \E mi \in Matching(comm[r], partner, myrank, tag + 1) :
                       /\ recvData' =
                              [recvData EXCEPT
                                  ![r] = [rawStrings |-> m.bytes,
                                          indices |-> receivedIndices(mi.bytes)]]
                       /\ network' = network \ {m, mi}
               ELSE /\ recvData' =
                           [recvData EXCEPT
                               ![r] = [rawStrings |-> m.bytes, indices |-> <<>>]]
                    /\ network' = network \ {m}
    /\ pc' = [pc EXCEPT ![r] = "MPI_Waitall"]
    /\ UNCHANGED <<pureVars, firstRun, args, bit_store, comm, colour, data,
                   container, pivot, separator, exchangeData, sentData>>

\* Data::exchange, MPI_Waitall: the sends of the rank are complete; then
\* exchangeData.clear()
ExchangeWait(r) ==
    /\ pc[r] = "MPI_Waitall"
    /\ Pending(comm[r], rankIn(comm[r], r)) = {}
    /\ exchangeData' = [exchangeData EXCEPT ![r] = EmptyData]
    /\ pc' = [pc EXCEPT ![r] = "Splitter_merge_Barrier"]
    /\ UNCHANGED <<pureVars, firstRun, args, bit_store, comm, colour, data,
                   container, pivot, separator, sentData, recvData, network>>

\* mergedStrings of rank r: the kept range merged with the strings of
\* recvStrings, the container of the received Data
mergedStringsOf(r) ==
    {merge(own, recvStrings.strings, isIndexed) :
        own \in {ownRange(container[r].strings, separator[r],
                          is_left_group(comm[r], r))},
        recvStrings \in {moveToContainer(recvData[r], isIndexed)}}

\* the container of rank r after the copy of the merged strings and
\* stringContainer.update
mergedContainerOf(r) ==
    {update(RawOf(mergedStrings), IndicesOf(mergedStrings), isIndexed) :
        mergedStrings \in mergedStringsOf(r)}

\* the barrier Splitter_merge_Barrier is passed and every rank merges; with
\* nprocs < 4 sortRec returns
Merge(c) ==
    /\ AllIn(c, "Splitter_merge_Barrier")
    /\ \E choice \in Outcomes([i \in 1 .. Len(c) |-> mergedContainerOf(c[i])]) :
           container' = [r \in Ranks |->
                            IF r \in Members(c) THEN Pick(choice, c, r)
                            ELSE container[r]]
    /\ pc' = [r \in Ranks |->
                 IF r \notin Members(c) THEN pc[r]
                 ELSE IF Len(c) >= 4 THEN "Splitter_split_Barrier"
                 ELSE "returned"]
    /\ UNCHANGED <<pureVars, firstRun, args, bit_store, comm, colour, data,
                   pivot, separator, exchangeData, sentData, recvData, network>>

\* the barrier Splitter_split_Barrier is passed
SplitBarrier(c) ==
    /\ AllIn(c, "Splitter_split_Barrier")
    /\ pc' = [r \in Ranks |-> IF r \in Members(c) THEN "Splitter_split" ELSE pc[r]]
    /\ UNCHANGED <<pureVars, firstRun, args, bit_store, comm, colour, data,
                   container, pivot, separator, exchangeData, sentData,
                   recvData, network>>

\* the colour split passes to MPI_Comm_split: is_left_group
SplitColour(c) ==
    [r \in Ranks |-> IF r \in Members(c) /\ is_left_group(c, r) THEN 1 ELSE 0]

\* split(comm, &subcomm) returns on the members of c; sortRec is called on
\* the sub-communicator
Split(c) ==
    /\ AllIn(c, "Splitter_split")
    /\ comm' = [r \in Ranks |->
                   IF r \in Members(c)
                   THEN MPI_Comm_split(c, SplitColour(c), KeyOf(c), r)
                   ELSE comm[r]]
    /\ pc' = [r \in Ranks |->
                 IF r \in Members(c) THEN "Splitter_median_select_Barrier"
                 ELSE pc[r]]
    /\ UNCHANGED <<pureVars, firstRun, args, bit_store, colour, data,
                   container, pivot, separator, exchangeData, sentData,
                   recvData, network>>

\* ------------------------------------------------------------------------
\* Instrumentation
\* ------------------------------------------------------------------------

\* a measuringTool that is told of the barriers only
measuringTool_start_barriers(from, to) ==
    IF to \in {"Splitter_move_to_pow_of_two_t_Barrier", "splitter_shuffle_Barrier",
               "Splitter_sortLocally_Barrier", "Splitter_median_select_Barrier",
               "Splitter_partition_Barrier", "Splitter_exchange_Barrier",
               "Splitter_merge_Barrier", "Splitter_split_Barrier"}
    THEN <<to>> ELSE <<>>

\* the identifiers a rank passes to measuringTool.start, in the order of the
\* calls, in a step from the position from to the position to: the phase
\* behind the barrier it leaves and the barrier it enters; the rank that
\* leaves the barrier of the fold on a group of a power of two enters the
\* next barrier in the same step
measuringTool_start(from, to) ==
    (CASE from = "Splitter_baseCase_Barrier" -> <<"Splitter_baseCase">>
       [] from = "Splitter_move_to_pow_of_two_t_Barrier" ->
              <<"Splitter_move_to_pow_of_two_t">>
       [] from = "splitter_shuffle_Barrier" -> <<"Splitter_shuffle">>
       [] from = "Splitter_sortLocally_Barrier" -> <<"Splitter_sortLocally">>
       [] from = "Splitter_median_select_Barrier" -> <<"Splitter_median_select">>
       [] from = "Splitter_partition_Barrier" -> <<"Splitter_partition">>
       [] from = "Splitter_exchange_Barrier" -> <<"Splitter_exchange">>
       [] from = "Splitter_merge_Barrier" -> <<"Splitter_merge">>
       [] from = "Splitter_split_Barrier" -> <<"Splitter_split">>
       [] OTHER -> <<>>)
    \o (IF to \in {"Splitter_move_to_pow_of_two_t_Barrier",
                   "splitter_shuffle_Barrier", "Splitter_sortLocally_Barrier",
                   "Splitter_median_select_Barrier", "Splitter_partition_Barrier",
                   "Splitter_exchange_Barrier", "Splitter_merge_Barrier",
                   "Splitter_split_Barrier"}
        THEN <<to>> ELSE <<>>)

\* ------------------------------------------------------------------------
\* Specification
\* ------------------------------------------------------------------------

\* the communicators in use
Comms == {comm[r] : r \in Ranks}

Next ==
    \/ \E c \in Comms : BaseCaseBarrier(c)
    \/ \E r \in Ranks : BaseCase(r)
    \/ \E c \in Comms : FoldBarrier(c)
    \/ \E r \in Ranks : FoldReceive(r)
    \/ \E r \in Ranks : FoldReceiveIndices(r)
    \/ \E r \in Ranks : FoldSendIndices(r)
    \/ \E r \in Ranks : FoldSendDone(r)
    \/ \E c \in Comms : FoldSplit(c)
    \/ \E c \in Comms : ShuffleBarrier(c)
    \/ \E c \in Comms : SortLocally(c)
    \/ \E c \in Comms : MedianSelectBarrier(c)
    \/ \E c \in Comms : SelectSplitter(c)
    \/ \E c \in Comms : Partition(c)
    \/ \E c \in Comms : ExchangeSend(c)
    \/ \E r \in Ranks : ExchangeRecv(r)
    \/ \E r \in Ranks : ExchangeWait(r)
    \/ \E c \in Comms : Merge(c)
    \/ \E c \in Comms : SplitBarrier(c)
    \/ \E c \in Comms : Split(c)

Spec == Init /\ [][Next]_vars

\* Every call that can proceed does proceed: an MPI call whose condition to
\* return holds returns, and a rank that is not blocked in a call runs.
FairSpec == Init /\ [][Next]_vars /\ WF_vars(Next)

\* ------------------------------------------------------------------------
\* Two calls of sort, one after the other, by the same group with the same
\* arguments and generators seeded as for the first call
\* ------------------------------------------------------------------------

\* the seeds of the generators: the words of SeedBits bits
Seeds == 0 .. (2 ^ SeedBits - 1)

\* the generator of rank r when the run is seeded with s: seeded with s + r
SeededStores(s) == [r \in Ranks |-> Seeded((s + r) % (2 ^ SeedBits))]

InitSeeded ==
    /\ worldSize \in 1 .. MaxP
    /\ isIndexed \in BOOLEAN
    /\ is_robust \in BOOLEAN
    /\ input \in Inputs(worldSize, isIndexed)
    /\ Called
    /\ bit_store \in {SeededStores(s) : s \in Seeds}
    /\ firstRun = NoRun
    /\ twoSeq = NoCall
    /\ exchangeCall = NoCall
    /\ shuffleCall = NoCall
    /\ locateCall = NoCall
    /\ pickCall = NoCall
    /\ pipelineCall = NoCall
    /\ mergeCall = NoCall
    /\ sortLocallyCall = NoCall
    /\ compareCall = NoCall
    /\ isSortedCall = NoCall
    /\ intervalCall = NoCall

\* sort has returned on every rank; the group calls it again with the same
\* data and with generators seeded as before
SortAgain ==
    /\ \A r \in World : pc[r] = "returned"
    /\ ~firstRun.done
    /\ firstRun' = [done |-> TRUE, container |-> container]
    /\ bit_store' = [r \in Ranks |-> Seeded(bit_store[r].seed)]
    /\ pc' = pcAtCall
    /\ comm' = commAtCall
    /\ colour' = [r \in Ranks |-> 0]
    /\ data' = input
    /\ container' = [r \in Ranks |-> EmptyContainer]
    /\ pivot' = [r \in Ranks |-> EmptyData]
    /\ separator' = [r \in Ranks |-> 0]
    /\ exchangeData' = [r \in Ranks |-> EmptyData]
    /\ sentData' = [r \in Ranks |-> EmptyData]
    /\ recvData' = [r \in Ranks |-> EmptyData]
    /\ network' = {}
    /\ UNCHANGED <<pureVars, args>>

NextSeeded ==
    \/ Next
    \/ SortAgain

SpecSeeded == InitSeeded /\ [][NextSeeded]_vars

\* ------------------------------------------------------------------------
\* sort on the inputs of the scenarios of the specification and on inputs of
\* equal strings
\* ------------------------------------------------------------------------

\* the Data a rank passes to sort for the strings strs
DataOf(strs, indexed) ==
    [rawStrings |-> RawOf(strs),
     indices |-> IF indexed THEN IndicesOf(strs) ELSE <<>>]

\* the inputs of the ranks of a group of P for the local string lists
InputOf(locals, P, indexed) ==
    [r \in Ranks |-> IF r < P THEN DataOf(locals[r + 1], indexed)
                     ELSE EmptyData]

\* the string "eq"
eq == <<101, 113>>

\* a rank holds at most MaxEqual of the equal strings
MaxEqual == 3

\* the number of strings on the ranks before rank r (1-based in cnt)
RECURSIVE Before(_, _)
Before(cnt, r) == IF r = 0 THEN 0 ELSE cnt[r] + Before(cnt, r - 1)

\* rank r holds cnt[r] copies of "eq"; their origin indices number the
\* strings of the group from 1 in the order of the ranks
EqualLocals(cnt) ==
    [r \in 1 .. Len(cnt) |->
        [i \in 1 .. cnt[r] |-> [string |-> eq, index |-> Before(cnt, r - 1) + i]]]

\* the numbers of strings on the ranks of a group of P: every rank holds up
\* to MaxEqual strings; in a group of MaxP every rank holds none or MaxEqual
EqualCounts(P) ==
    [1 .. P -> IF P < MaxP THEN 0 .. MaxEqual ELSE {0, MaxEqual}]

EqualScenarios ==
    UNION {{[P |-> P, indexed |-> indexed, robust |-> TRUE,
             input |-> InputOf(EqualLocals(cnt), P, indexed)] :
                cnt \in EqualCounts(P), indexed \in BOOLEAN} :
           P \in 1 .. MaxP}

\* scenario S3: four ranks with ["eq", "eq", "eq", "eq"] each
S3 ==
    [P |-> 4, indexed |-> FALSE, robust |-> TRUE,
     input |-> InputOf(EqualLocals(<<4, 4, 4, 4>>), 4, FALSE)]

\* a string without origin index
Plain(bytes) == [string |-> bytes, index |-> 0]

\* the local inputs of scenario S1: ant, bee; cat, dog; eel, fox; gnu, hen
S1Locals ==
    <<<<Plain(<<97, 110, 116>>), Plain(<<98, 101, 101>>)>>,
      <<Plain(<<99, 97, 116>>), Plain(<<100, 111, 103>>)>>,
      <<Plain(<<101, 101, 108>>), Plain(<<102, 111, 120>>)>>,
      <<Plain(<<103, 110, 117>>), Plain(<<104, 101, 110>>)>>>>

\* scenario S1: four ranks with a globally sorted input
S1(robust) ==
    [P |-> 4, indexed |-> FALSE, robust |-> robust,
     input |-> InputOf(S1Locals, 4, FALSE)]

\* the string "k" with the origin index i
K(i) == [string |-> <<107>>, index |-> i]

\* scenario S4: two ranks, indexed
S4(robust) ==
    [P |-> 2, indexed |-> TRUE, robust |-> robust,
     input |-> InputOf(<<<<K(7), K(3)>>, <<K(1), K(5)>>>>, 2, TRUE)]

Scenarios ==
    EqualScenarios \cup {S3} \cup {S1(robust) : robust \in BOOLEAN}
        \cup {S4(robust) : robust \in BOOLEAN}

InitScenario ==
    /\ \E sc \in Scenarios :
          /\ worldSize = sc.P
          /\ isIndexed = sc.indexed
          /\ is_robust = sc.robust
          /\ input = sc.input
    /\ Called
    /\ bit_store = [r \in Ranks |-> Unseeded]
    /\ firstRun = NoRun
    /\ twoSeq = NoCall
    /\ exchangeCall = NoCall
    /\ shuffleCall = NoCall
    /\ locateCall = NoCall
    /\ pickCall = NoCall
    /\ pipelineCall = NoCall
    /\ mergeCall = NoCall
    /\ sortLocallyCall = NoCall
    /\ compareCall = NoCall
    /\ isSortedCall = NoCall
    /\ intervalCall = NoCall

SpecScenario == InitScenario /\ [][Next]_vars

\* ------------------------------------------------------------------------
\* twoSequenceSelection (RBC variant), called on its own.  The elements are
\* strings of one byte under StringComparator; twoSeq holds the arguments
\* (the sequences A = [begin1, end1) and B = [begin2, end2) and k, the rank
\* passed) and the locals of the call, positions counted from the start of
\* the sequences.
\* ------------------------------------------------------------------------

\* the element with the value x
Elem(x) == [string |-> <<x>>, index |-> 0]

\* the sorted sequences of n elements
SortedSeqs(n) ==
    {[i \in 1 .. n |-> Elem(f[i])] :
        f \in {g \in [1 .. n -> 1 .. MaxVal] :
                  \A i \in 1 .. (n - 1) : g[i] <= g[i + 1]}}

\* the sequences of scenario S5 of the specification
ExampleA == <<Elem(1), Elem(3), Elem(5), Elem(7)>>

ExampleB == <<Elem(2), Elem(3), Elem(6), Elem(8)>>

\* the pairs of sequences twoSequenceSelection is called with
SequencePairs ==
    {<<a, b>> : a \in UNION {SortedSeqs(n) : n \in 0 .. MaxLen},
                b \in UNION {SortedSeqs(n) : n \in 0 .. MaxLen}}
    \cup {<<ExampleA, ExampleB>>}

\* the frame at the entry of twoSequenceSelection(A, A + |A|, B, B + |B|, k)
Call(A, B, k) ==
    [pc |-> "while", A |-> A, B |-> B, k |-> k,
     begin1 |-> 0, end1 |-> Len(A), begin2 |-> 0, end2 |-> Len(B),
     rank |-> k, result |-> <<0, 0>>]

\* no run of sort takes place
NoSort ==
    /\ worldSize = 1
    /\ isIndexed = FALSE
    /\ is_robust = FALSE
    /\ input = [r \in Ranks |-> EmptyData]
    /\ pc = [r \in Ranks |-> "none"]
    /\ comm = [r \in Ranks |-> <<>>]
    /\ colour = [r \in Ranks |-> 0]
    /\ data = input
    /\ container = [r \in Ranks |-> EmptyContainer]
    /\ pivot = [r \in Ranks |-> EmptyData]
    /\ separator = [r \in Ranks |-> 0]
    /\ exchangeData = [r \in Ranks |-> EmptyData]
    /\ sentData = [r \in Ranks |-> EmptyData]
    /\ recvData = [r \in Ranks |-> EmptyData]
    /\ network = {}
    /\ bit_store = [r \in Ranks |-> Unseeded]
    /\ firstRun = NoRun

InitTwoSeq ==
    /\ NoSort
    /\ \E p \in SequencePairs :
       \E k \in 0 .. (Len(p[1]) + Len(p[2])) :
           twoSeq = Call(p[1], p[2], k)
    /\ exchangeCall = NoCall
    /\ shuffleCall = NoCall
    /\ locateCall = NoCall
    /\ pickCall = NoCall
    /\ pipelineCall = NoCall
    /\ mergeCall = NoCall
    /\ sortLocallyCall = NoCall
    /\ compareCall = NoCall
    /\ isSortedCall = NoCall
    /\ intervalCall = NoCall

\* offset1, and splitter1 as a position of A
offset1(f) == (f.end1 - f.begin1) \div 2

splitter1(f) == f.begin1 + offset1(f)

\* splitter2 = std::lower_bound(begin2, end2, *splitter1, comp)
splitter2(f) ==
    lower_bound(f.B, f.begin2, f.end2 - f.begin2, f.A[splitter1(f) + 1], FALSE)

\* new_rank = offset1 + offset2
new_rank(f) == offset1(f) + (splitter2(f) - f.begin2)

\* rank < new_rank: continue on the left part
continueLeft(f) == [f EXCEPT !.end1 = splitter1(f), !.end2 = splitter2(f)]

\* a right part that keeps the rank of the splitter
continueRight_keepsRank(f) ==
    [f EXCEPT !.rank = f.rank - new_rank(f),
              !.begin1 = splitter1(f) + 1,
              !.begin2 = splitter2(f)]

\* rank > new_rank: continue on the right part
continueRight(f) ==
    [f EXCEPT !.rank = f.rank - (new_rank(f) + 1),
              !.begin1 = splitter1(f) + 1,
              !.begin2 = splitter2(f)]

\* return {first, second}
return(f, first, second) ==
    [f EXCEPT !.pc = "returned", !.result = <<first, second>>]

\* an iteration of the loop that continues on the left part
TwoSeqLeft ==
    /\ twoSeq.pc = "while"
    /\ twoSeq.end1 # twoSeq.begin1
    /\ twoSeq.rank < new_rank(twoSeq)
    /\ twoSeq' = continueLeft(twoSeq)
    /\ UNCHANGED <<sortVars, exchangeCall, shuffleCall, locateCall, pickCall, pipelineCall, mergeCall, sortLocallyCall, compareCall, isSortedCall, intervalCall>>

\* an iteration of the loop that continues on the right part
TwoSeqRight ==
    /\ twoSeq.pc = "while"
    /\ twoSeq.end1 # twoSeq.begin1
    /\ twoSeq.rank > new_rank(twoSeq)
    /\ twoSeq' = continueRight(twoSeq)
    /\ UNCHANGED <<sortVars, exchangeCall, shuffleCall, locateCall, pickCall, pipelineCall, mergeCall, sortLocallyCall, compareCall, isSortedCall, intervalCall>>

\* an iteration of the loop that finds the rank at the splitter
TwoSeqFound ==
    /\ twoSeq.pc = "while"
    /\ twoSeq.end1 # twoSeq.begin1
    /\ twoSeq.rank = new_rank(twoSeq)
    /\ twoSeq' = return(twoSeq, splitter1(twoSeq), splitter2(twoSeq))
    /\ UNCHANGED <<sortVars, exchangeCall, shuffleCall, locateCall, pickCall, pipelineCall, mergeCall, sortLocallyCall, compareCall, isSortedCall, intervalCall>>

\* the first sequence is empty: return {begin1, begin2 + rank}
TwoSeqExhausted ==
    /\ twoSeq.pc = "while"
    /\ twoSeq.end1 = twoSeq.begin1
    /\ twoSeq' = return(twoSeq, twoSeq.begin1, twoSeq.begin2 + twoSeq.rank)
    /\ UNCHANGED <<sortVars, exchangeCall, shuffleCall, locateCall, pickCall, pipelineCall, mergeCall, sortLocallyCall, compareCall, isSortedCall, intervalCall>>

NextTwoSeq ==
    \/ TwoSeqLeft
    \/ TwoSeqRight
    \/ TwoSeqFound
    \/ TwoSeqExhausted

SpecTwoSeq == InitTwoSeq /\ [][NextTwoSeq]_vars

\* ------------------------------------------------------------------------
\* merge with OpenMP (RBC variant), called on its own: the threads of the
\* parallel region.  The elements are strings of one byte under
\* StringComparator; the index of an element names where it came from, the
\* comparator does not read it.  mergeCall holds the arguments, the locals of
\* every thread and the target array; positions are counted from begin1,
\* begin2 and tbegin.
\* ------------------------------------------------------------------------

\* the longest sequence and the largest element of the calls of merge, and
\* the largest number of threads of the parallel region
MergeLen == 3

MergeVal == 2

MaxThreads == 3

\* the sorted sequences of n elements; the element at position i has the
\* index base + i
MergeSeqs(n, base) ==
    {[i \in 1 .. n |-> [string |-> <<f[i]>>, index |-> base + i]] :
        f \in {g \in [1 .. n -> 1 .. MergeVal] :
                  \A i \in 1 .. (n - 1) : g[i] <= g[i + 1]}}

\* the pairs of sequences merge is called with: the elements of the first
\* have the indices 1, 2, ..., those of the second the indices behind
MergeInputs ==
    {<<a, b>> : a \in UNION {MergeSeqs(n, 0) : n \in 0 .. MergeLen},
                b \in UNION {MergeSeqs(n, MergeLen) : n \in 0 .. MergeLen}}

\* twoSequenceSelection from its entry with the frame f to its return: the
\* pair of positions returned
RECURSIVE twoSequenceSelection(_)
twoSequenceSelection(f) ==
    IF f.pc = "returned" THEN f.result
    ELSE IF f.end1 = f.begin1
    THEN twoSequenceSelection(return(f, f.begin1, f.begin2 + f.rank))
    ELSE IF f.rank < new_rank(f) THEN twoSequenceSelection(continueLeft(f))
    ELSE IF f.rank > new_rank(f) THEN twoSequenceSelection(continueRight(f))
    ELSE twoSequenceSelection(return(f, splitter1(f), splitter2(f)))

\* twoSequenceSelection(A + b1, A + |A|, B + b2, B + |B|, k)
selectFrom(A, B, b1, b2, k) ==
    twoSequenceSelection([Call(A, B, k) EXCEPT !.begin1 = b1, !.begin2 = b2])

\* a target array element no thread has written
Unwritten == [string |-> <<>>, index |-> 0]

\* num_elements
num_elements(f) == Len(f.A) + Len(f.B)

\* a stripe that is rounded down
stripe_floor(f) == num_elements(f) \div f.num_threads

\* stripe = tlx::div_ceil(num_elements, num_threads)
stripe(f) == (num_elements(f) + f.num_threads - 1) \div f.num_threads

\* rank_begin and rank_end of the thread id
rank_begin(f, id) == Min(id * stripe(f), num_elements(f))

rank_end(f, id) == Min((id + 1) * stripe(f), num_elements(f))

\* the frame at the entry of the parallel region of
\* merge(A, A + |A|, B, B + |B|, tbegin, comp) with T threads
MergeCall(A, B, T) ==
    [pc |-> "parallel", A |-> A, B |-> B, num_threads |-> T,
     at |-> [id \in 0 .. (T - 1) |-> "s_begin"],
     s_begin |-> [id \in 0 .. (T - 1) |-> <<0, 0>>],
     s_end |-> [id \in 0 .. (T - 1) |-> <<0, 0>>],
     written |-> [id \in 0 .. (T - 1) |-> {}],
     target |-> [i \in 1 .. (Len(A) + Len(B)) |-> Unwritten]]

InitMerge ==
    /\ NoSort
    /\ \E p \in MergeInputs :
       \E T \in 1 .. MaxThreads :
           mergeCall = MergeCall(p[1], p[2], T)
    /\ twoSeq = NoCall
    /\ exchangeCall = NoCall
    /\ shuffleCall = NoCall
    /\ locateCall = NoCall
    /\ pickCall = NoCall
    /\ pipelineCall = NoCall
    /\ sortLocallyCall = NoCall
    /\ compareCall = NoCall
    /\ isSortedCall = NoCall
    /\ intervalCall = NoCall

\* the threads of the parallel region
Threads == IF mergeCall.pc = "none" THEN {} ELSE 0 .. (mergeCall.num_threads - 1)

\* auto [s1_begin, s2_begin] = twoSequenceSelection(begin1, end1, begin2,
\* end2, rank_begin, comp)
MergeSelectBegin(id) ==
    /\ mergeCall.at[id] = "s_begin"
    /\ mergeCall' =
           [mergeCall EXCEPT
               !.s_begin[id] = selectFrom(mergeCall.A, mergeCall.B, 0, 0,
                                          rank_begin(mergeCall, id)),
               !.at[id] = "s_end"]
    /\ UNCHANGED <<sortVars, twoSeq, exchangeCall, shuffleCall, locateCall,
                   pickCall, pipelineCall, sortLocallyCall, compareCall, isSortedCall, intervalCall>>

\* auto [s1_end, s2_end] = twoSequenceSelection(s1_begin, end1, s2_begin,
\* end2, rank_end - rank_begin, comp)
MergeSelectEnd(id) ==
    /\ mergeCall.at[id] = "s_end"
    /\ mergeCall' =
           [mergeCall EXCEPT
               !.s_end[id] = selectFrom(mergeCall.A, mergeCall.B,
                                        mergeCall.s_begin[id][1],
                                        mergeCall.s_begin[id][2],
                                        rank_end(mergeCall, id)
                                            - rank_begin(mergeCall, id)),
               !.at[id] = "std::merge"]
    /\ UNCHANGED <<sortVars, twoSeq, exchangeCall, shuffleCall, locateCall,
                   pickCall, pipelineCall, sortLocallyCall, compareCall, isSortedCall, intervalCall>>

\* a thread that passes the slice of the second sequence to std::merge first
mergedSlice_secondFirst(f, id) ==
    std_merge(SubSeq(f.B, f.s_begin[id][2] + 1, f.s_end[id][2]),
              SubSeq(f.A, f.s_begin[id][1] + 1, f.s_end[id][1]), FALSE)

\* what std::merge(s1_begin, s1_end, s2_begin, s2_end, ...) of the thread id
\* writes
mergedSlice(f, id) ==
    std_merge(SubSeq(f.A, f.s_begin[id][1] + 1, f.s_end[id][1]),
              SubSeq(f.B, f.s_begin[id][2] + 1, f.s_end[id][2]), FALSE)

\* std::merge(s1_begin, s1_end, s2_begin, s2_end, tbegin + rank_begin, comp):
\* the elements are written from the position rank_begin of the target on
MergeWrite(id) ==
    /\ mergeCall.at[id] = "std::merge"
    /\ LET out == mergedSlice(mergeCall, id)
           first == rank_begin(mergeCall, id)
       IN  mergeCall' =
               [mergeCall EXCEPT
                   !.target = [i \in 1 .. Len(mergeCall.target) |->
                                  IF i - 1 \in first .. (first + Len(out) - 1)
                                  THEN out[i - first]
                                  ELSE mergeCall.target[i]],
                   !.written[id] = first .. (first + Len(out) - 1),
                   !.at[id] = "done"]
    /\ UNCHANGED <<sortVars, twoSeq, exchangeCall, shuffleCall, locateCall,
                   pickCall, pipelineCall, sortLocallyCall, compareCall, isSortedCall, intervalCall>>

NextMerge ==
    \/ \E id \in Threads : MergeSelectBegin(id)
    \/ \E id \in Threads : MergeSelectEnd(id)
    \/ \E id \in Threads : MergeWrite(id)

SpecMerge == InitMerge /\ [][NextMerge]_vars

\* ------------------------------------------------------------------------
\* sortLocally of the indexed instantiation, called on its own.
\* sortLocallyCall holds the container, the LCP array and the ranges.
\* ------------------------------------------------------------------------

\* the largest number of strings of the container
MaxStrings == 4

\* the byte strings of the containers: "", "a" and "ab"
DuplicateUniverse == {<<>>, <<1>>, <<1, 2>>}

\* the view tables of the containers sortLocally is called with: n strings
\* with the origin indices 1 .. n in any order
DuplicateInputs ==
    UNION {{[i \in 1 .. n |-> [string |-> g[i], index |-> idx[i]]] :
               g \in [1 .. n -> DuplicateUniverse],
               idx \in Permutations(1 .. n)} :
           n \in 0 .. MaxStrings}

\* the frame at the entry of sortLocally(stringContainer)
SortLocallyCall(strings) ==
    [pc |-> "radixsort_CI3", before |-> strings,
     stringContainer |-> [raw |-> RawOf(strings), strings |-> strings],
     lcp |-> SeqOfN(0, Len(strings)), ranges |-> <<>>]

InitSortLocally ==
    /\ NoSort
    /\ \E strings \in DuplicateInputs : sortLocallyCall = SortLocallyCall(strings)
    /\ twoSeq = NoCall
    /\ exchangeCall = NoCall
    /\ shuffleCall = NoCall
    /\ locateCall = NoCall
    /\ pickCall = NoCall
    /\ pipelineCall = NoCall
    /\ mergeCall = NoCall
    /\ compareCall = NoCall
    /\ isSortedCall = NoCall
    /\ intervalCall = NoCall

\* tlx::sort_strings_detail::radixsort_CI3(augmentedStringPtr, 0, 0): the
\* views are sorted and the LCP array is filled
SortLocallyRadixsort ==
    /\ sortLocallyCall.pc = "radixsort_CI3"
    /\ \E sorted \in radixsort_CI3(sortLocallyCall.stringContainer.strings) :
           sortLocallyCall' =
               [sortLocallyCall EXCEPT !.stringContainer.strings = sorted,
                                       !.lcp = LcpArray(sorted),
                                       !.pc = "getDuplicateRanges"]
    /\ UNCHANGED <<sortVars, twoSeq, exchangeCall, shuffleCall, locateCall,
                   pickCall, pipelineCall, mergeCall, compareCall, isSortedCall, intervalCall>>

\* auto ranges = getDuplicateRanges(augmentedStringPtr)
SortLocallyRanges ==
    /\ sortLocallyCall.pc = "getDuplicateRanges"
    /\ sortLocallyCall' =
           [sortLocallyCall EXCEPT
               !.ranges = getDuplicateRanges(sortLocallyCall.stringContainer.strings,
                                             sortLocallyCall.lcp),
               !.pc = "sortRanges"]
    /\ UNCHANGED <<sortVars, twoSeq, exchangeCall, shuffleCall, locateCall,
                   pickCall, pipelineCall, mergeCall, compareCall, isSortedCall, intervalCall>>

\* sortRanges(stringContainer, ranges)
SortLocallySortRanges ==
    /\ sortLocallyCall.pc = "sortRanges"
    /\ sortLocallyCall' =
           [sortLocallyCall EXCEPT
               !.stringContainer.strings =
                   sortRanges(sortLocallyCall.stringContainer.strings,
                              sortLocallyCall.ranges),
               !.pc = "returned"]
    /\ UNCHANGED <<sortVars, twoSeq, exchangeCall, shuffleCall, locateCall,
                   pickCall, pipelineCall, mergeCall, compareCall, isSortedCall, intervalCall>>

NextSortLocally ==
    \/ SortLocallyRadixsort
    \/ SortLocallyRanges
    \/ SortLocallySortRanges

SpecSortLocally == InitSortLocally /\ [][NextSortLocally]_vars

\* ------------------------------------------------------------------------
\* The comparators and indexStringCompare, called on their own.  compareCall
\* holds the arguments and the values returned.  A uint64_t of
\* indexStringCompare is the sequence of its four 16-bit digits, the most
\* significant first.
\* ------------------------------------------------------------------------

\* the byte strings compared: "", "a", "ab" and a string of one byte above 127
CompareUniverse == {<<>>, <<1>>, <<1, 2>>, <<200>>}

\* the indices of the strings the comparators are called with
CompareIndices == 1 .. 3

\* the strings IndexStringComparator and StringComparator are called with
IndexedStrings ==
    {[string |-> str, index |-> i] : str \in CompareUniverse, i \in CompareIndices}

\* 2^16, the base of the digits of a uint64_t
Digit == 2 ^ 16

\* the uint64_t values 0, 1, 2^31, 2^32, 2^32 + 1 and 2^64 - 1
Indices64 ==
    {<<0, 0, 0, 0>>, <<0, 0, 0, 1>>, <<0, 0, Digit \div 2, 0>>, <<0, 1, 0, 0>>,
     <<0, 1, 0, 1>>, <<Digit - 1, Digit - 1, Digit - 1, Digit - 1>>}

\* x - y on uint64_t: the difference modulo 2^64, digit by digit with borrow
RECURSIVE SubDigits(_, _, _, _)
SubDigits(x, y, i, borrow) ==
    IF i = 0 THEN <<>>
    ELSE LET d == x[i] - y[i] - borrow
         IN  SubDigits(x, y, i - 1, IF d < 0 THEN 1 ELSE 0)
                 \o <<IF d < 0 THEN d + Digit ELSE d>>

Sub64(x, y) == SubDigits(x, y, 4, 0)

\* the conversion of the int64_t with the bits x to the int returned: the
\* low 32 bits, in two's complement
ToInt(x) ==
    IF x[3] >= Digit \div 2 THEN (x[3] - Digit) * Digit + x[4]
    ELSE x[3] * Digit + x[4]

\* indexStringCompare(lhs, indexLhs, rhs, indexRhs)
indexStringCompare(lhs, indexLhs, rhs, indexRhs) ==
    LET i == FirstDiff(lhs, rhs, 1)
    IN  IF CharAt(lhs, i) # CharAt(rhs, i)
        THEN CharAt(lhs, i) - CharAt(rhs, i)
        ELSE ToInt(Sub64(indexLhs, indexRhs))

\* the frame of the calls of the comparators on the strings x[1], x[2], x[3]
ComparatorCall(x) ==
    [pc |-> "operator()", x |-> x,
     indexed |-> [i \in 1 .. 3 |-> [j \in 1 .. 3 |-> FALSE]],
     plain |-> [i \in 1 .. 3 |-> [j \in 1 .. 3 |-> FALSE]]]

\* the frame of a call of indexStringCompare
IndexStringCompareCall(lhs, indexLhs, rhs, indexRhs) ==
    [pc |-> "indexStringCompare", lhs |-> lhs, indexLhs |-> indexLhs,
     rhs |-> rhs, indexRhs |-> indexRhs, res |-> 0]

InitCompare ==
    /\ NoSort
    /\ \/ \E x \in [1 .. 3 -> IndexedStrings] : compareCall = ComparatorCall(x)
       \/ \E lhs \in CompareUniverse, rhs \in CompareUniverse :
          \E indexLhs \in Indices64, indexRhs \in Indices64 :
              compareCall = IndexStringCompareCall(lhs, indexLhs, rhs, indexRhs)
    /\ twoSeq = NoCall
    /\ exchangeCall = NoCall
    /\ shuffleCall = NoCall
    /\ locateCall = NoCall
    /\ pickCall = NoCall
    /\ pipelineCall = NoCall
    /\ mergeCall = NoCall
    /\ sortLocallyCall = NoCall
    /\ isSortedCall = NoCall
    /\ intervalCall = NoCall

\* IndexStringComparator and StringComparator have returned for every pair
\* of the three strings
ComparatorReturn ==
    /\ compareCall.pc = "operator()"
    /\ compareCall' =
           [compareCall EXCEPT
               !.indexed = [i \in 1 .. 3 |-> [j \in 1 .. 3 |->
                               IndexStringComparator(compareCall.x[i],
                                                     compareCall.x[j])]],
               !.plain = [i \in 1 .. 3 |-> [j \in 1 .. 3 |->
                             StringComparator(compareCall.x[i], compareCall.x[j])]],
               !.pc = "returned"]
    /\ UNCHANGED <<sortVars, twoSeq, exchangeCall, shuffleCall, locateCall,
                   pickCall, pipelineCall, mergeCall, sortLocallyCall,
                   isSortedCall, intervalCall>>

\* indexStringCompare has returned
IndexStringCompareReturn ==
    /\ compareCall.pc = "indexStringCompare"
    /\ compareCall' =
           [compareCall EXCEPT
               !.res = indexStringCompare(compareCall.lhs, compareCall.indexLhs,
                                          compareCall.rhs, compareCall.indexRhs),
               !.pc = "compared"]
    /\ UNCHANGED <<sortVars, twoSeq, exchangeCall, shuffleCall, locateCall,
                   pickCall, pipelineCall, mergeCall, sortLocallyCall,
                   isSortedCall, intervalCall>>

NextCompare ==
    \/ ComparatorReturn
    \/ IndexStringCompareReturn

SpecCompare == InitCompare /\ [][NextCompare]_vars

\* ------------------------------------------------------------------------
\* is_sorted (src/src/mpi/is_sorted.hpp), called by every PE of the
\* environment.  isSortedCall holds the string set and the locals of every
\* PE; a collective returns on all PEs in one step.
\* ------------------------------------------------------------------------

\* the string sets of a PE: up to two strings out of "a" and "b", in any order
LocalStringSets ==
    UNION {[1 .. n -> {<<1>>, <<2>>}] : n \in 0 .. 2}

\* scmp(lhs, rhs): the difference of the bytes at the first position where
\* the strings differ or both end
scmp(lhs, rhs) ==
    LET i == FirstDiff(lhs, rhs, 1)
    IN  CharAt(lhs, i) - CharAt(rhs, i)

\* ss.check_order(): no string is less than its predecessor
check_order(ss) ==
    \A i \in 1 .. (Len(ss) - 1) : scmp(ss[i], ss[i + 1]) <= 0

\* the PEs from which a shift by step can bring a string to rank: the next
\* PEs in that direction that are not empty, the nearest first
RECURSIVE shiftSource(_, _, _, _)
shiftSource(ss, rank, step, size) ==
    LET from == rank + step
    IN  IF from < 0 \/ from >= size THEN rank
        ELSE IF ss[from] # <<>> THEN from
        ELSE shiftSource(ss, from, step, size)

\* shift_string<is_left_shift>(send, is_empty, env) with the first strings:
\* the first string of the next PE to the right that holds strings; the
\* empty string if there is none
shift_string_left(ss, rank, size) ==
    LET from == shiftSource(ss, rank, 1, size)
    IN  IF from = rank \/ ss[from] = <<>> THEN <<>> ELSE ss[from][1]

\* shift_string<!is_left_shift>(send, is_empty, env) with the last strings:
\* the last string of the next PE to the left that holds strings
shift_string_right(ss, rank, size) ==
    LET from == shiftSource(ss, rank, -1, size)
    IN  IF from = rank \/ ss[from] = <<>> THEN <<>> ELSE ss[from][Len(ss[from])]

\* the frame at the entry of is_sorted(strptr) on the PEs of an environment
\* of the given size
IsSortedCall(size, ss) ==
    [pc |-> "called", size |-> size, ss |-> ss,
     at |-> [p \in 0 .. (size - 1) |-> "check_order"],
     is_locally_sorted |-> [p \in 0 .. (size - 1) |-> FALSE],
     number_PE_with_data |-> 0,
     min_PE_with_data |-> 0,
     max_PE_with_data |-> 0,
     greater_string |-> [p \in 0 .. (size - 1) |-> <<>>],
     smaller_string |-> [p \in 0 .. (size - 1) |-> <<>>],
     result |-> [p \in 0 .. (size - 1) |-> FALSE]]

InitIsSorted ==
    /\ NoSort
    /\ \E size \in 1 .. MaxP :
       \E ss \in [0 .. (size - 1) -> LocalStringSets] :
           isSortedCall = IsSortedCall(size, ss)
    /\ twoSeq = NoCall
    /\ exchangeCall = NoCall
    /\ shuffleCall = NoCall
    /\ locateCall = NoCall
    /\ pickCall = NoCall
    /\ pipelineCall = NoCall
    /\ mergeCall = NoCall
    /\ sortLocallyCall = NoCall
    /\ compareCall = NoCall
    /\ intervalCall = NoCall

\* the PEs of the environment
IsSortedPEs == IF isSortedCall.pc = "none" THEN {} ELSE 0 .. (isSortedCall.size - 1)

\* every PE has called the collective at the position p
AllAt(p) == IsSortedPEs # {} /\ \A q \in IsSortedPEs : isSortedCall.at[q] = p

has_strings(rank) == Len(isSortedCall.ss[rank]) > 0

\* is_locally_sorted = ss.check_order(); with one PE return it
IsSortedCheckOrder(rank) ==
    /\ isSortedCall.at[rank] = "check_order"
    /\ LET sorted == check_order(isSortedCall.ss[rank])
       IN  isSortedCall' =
               [isSortedCall EXCEPT
                   !.is_locally_sorted[rank] = sorted,
                   !.result[rank] = IF isSortedCall.size = 1 THEN sorted ELSE @,
                   !.at[rank] = IF isSortedCall.size = 1 THEN "returned"
                                ELSE "allreduce_sum"]
    /\ UNCHANGED <<sortVars, twoSeq, exchangeCall, shuffleCall, locateCall,
                   pickCall, pipelineCall, mergeCall, sortLocallyCall,
                   compareCall, intervalCall>>

\* number_PE_with_data = allreduce_sum(has_strings); with at most one PE
\* with data every PE returns is_locally_sorted
IsSortedSum ==
    /\ AllAt("allreduce_sum")
    /\ LET number == Cardinality({p \in IsSortedPEs : has_strings(p)})
       IN  isSortedCall' =
               [isSortedCall EXCEPT
                   !.number_PE_with_data = number,
                   !.result = IF number <= 1 THEN isSortedCall.is_locally_sorted
                              ELSE @,
                   !.at = [p \in IsSortedPEs |->
                              IF number <= 1 THEN "returned" ELSE "allreduce_min"]]
    /\ UNCHANGED <<sortVars, twoSeq, exchangeCall, shuffleCall, locateCall,
                   pickCall, pipelineCall, mergeCall, sortLocallyCall,
                   compareCall, intervalCall>>

\* min_PE_with_data = allreduce_min(has_strings ? env.rank() : env.size())
IsSortedMin ==
    /\ AllAt("allreduce_min")
    /\ LET own == {IF has_strings(p) THEN p ELSE isSortedCall.size : p \in IsSortedPEs}
       IN  isSortedCall' =
               [isSortedCall EXCEPT
                   !.min_PE_with_data = CHOOSE m \in own : \A o \in own : m <= o,
                   !.at = [p \in IsSortedPEs |-> "allreduce_max"]]
    /\ UNCHANGED <<sortVars, twoSeq, exchangeCall, shuffleCall, locateCall,
                   pickCall, pipelineCall, mergeCall, sortLocallyCall,
                   compareCall, intervalCall>>

\* max_PE_with_data = allreduce_max(has_strings ? env.rank() : -1)
IsSortedMax ==
    /\ AllAt("allreduce_max")
    /\ LET own == {IF has_strings(p) THEN p ELSE -1 : p \in IsSortedPEs}
       IN  isSortedCall' =
               [isSortedCall EXCEPT
                   !.max_PE_with_data = CHOOSE m \in own : \A o \in own : m >= o,
                   !.at = [p \in IsSortedPEs |-> "shift_string"]]
    /\ UNCHANGED <<sortVars, twoSeq, exchangeCall, shuffleCall, locateCall,
                   pickCall, pipelineCall, mergeCall, sortLocallyCall,
                   compareCall, intervalCall>>

\* greater_string = shift_string<is_left_shift>(front, !has_strings, env) and
\* smaller_string = shift_string<!is_left_shift>(back, !has_strings, env)
IsSortedShift ==
    /\ AllAt("shift_string")
    /\ isSortedCall' =
           [isSortedCall EXCEPT
               !.greater_string =
                   [p \in IsSortedPEs |->
                       shift_string_left(isSortedCall.ss, p, isSortedCall.size)],
               !.smaller_string =
                   [p \in IsSortedPEs |->
                       shift_string_right(isSortedCall.ss, p, isSortedCall.size)],
               !.at = [p \in IsSortedPEs |-> "allreduce_and"]]
    /\ UNCHANGED <<sortVars, twoSeq, exchangeCall, shuffleCall, locateCall,
                   pickCall, pipelineCall, mergeCall, sortLocallyCall,
                   compareCall, intervalCall>>

\* is_overall_sorted of a PE before allreduce_and
is_overall_sorted(f, rank) ==
    IF f.ss[rank] = <<>> THEN f.is_locally_sorted[rank]
    ELSE /\ f.is_locally_sorted[rank]
         /\ rank # f.min_PE_with_data =>
                scmp(f.smaller_string[rank], f.ss[rank][1]) <= 0
         /\ rank # f.max_PE_with_data =>
                scmp(f.ss[rank][Len(f.ss[rank])], f.greater_string[rank]) <= 0

\* return allreduce_and(is_overall_sorted, env)
IsSortedAnd ==
    /\ AllAt("allreduce_and")
    /\ LET and == \A p \in IsSortedPEs : is_overall_sorted(isSortedCall, p)
       IN  isSortedCall' =
               [isSortedCall EXCEPT
                   !.result = [p \in IsSortedPEs |-> and],
                   !.at = [p \in IsSortedPEs |-> "returned"]]
    /\ UNCHANGED <<sortVars, twoSeq, exchangeCall, shuffleCall, locateCall,
                   pickCall, pipelineCall, mergeCall, sortLocallyCall,
                   compareCall, intervalCall>>

NextIsSorted ==
    \/ \E rank \in IsSortedPEs : IsSortedCheckOrder(rank)
    \/ IsSortedSum
    \/ IsSortedMin
    \/ IsSortedMax
    \/ IsSortedShift
    \/ IsSortedAnd

SpecIsSorted == InitIsSorted /\ [][NextIsSorted]_vars

\* ------------------------------------------------------------------------
\* computeIntervalSizes (src/unnamed/part_001), called on its own.
\* intervalCall holds the arguments and the locals of the call.  A size_t
\* that has wrapped below 0 is the record with wrapped set: its value,
\* 2^64 - 1, is not less than any hash.
\* ------------------------------------------------------------------------

\* the largest bloomFilterSize and the largest number of hashes of a call
MaxFilter == 6

MaxHashes == 3

\* the ascending sequences of n hash values below bloomFilterSize
HashVectors(n, bloomFilterSize) ==
    {h \in [1 .. n -> 0 .. (bloomFilterSize - 1)] :
        \A i \in 1 .. (n - 1) : h[i] <= h[i + 1]}

\* upperPartitionLimit = (i + 1) * (bloomFilterSize / env.size()) - 1 on size_t
upperPartitionLimit(i, bloomFilterSize, size) ==
    LET product == (i + 1) * (bloomFilterSize \div size)
    IN  IF product = 0 THEN [wrapped |-> TRUE, value |-> 0]
        ELSE [wrapped |-> FALSE, value |-> product - 1]

\* limit < x on size_t
limitLess(limit, x) == ~limit.wrapped /\ limit.value < x

\* std::upper_bound(first, first + len, limit) on the hashes: the binary
\* search for the first position whose hash is greater than limit
RECURSIVE upper_bound_hashes(_, _, _, _)
upper_bound_hashes(hashes, first, len, limit) ==
    IF len = 0 THEN first
    ELSE LET half == len \div 2
             middle == first + half
         IN  IF limitLess(limit, hashes[middle + 1])
             THEN upper_bound_hashes(hashes, first, half, limit)
             ELSE upper_bound_hashes(hashes, middle + 1, len - half - 1, limit)

\* the frame at the entry of computeIntervalSizes(hashes, bloomFilterSize, env)
IntervalCall(hashes, bloomFilterSize, size) ==
    [pc |-> "for", hashes |-> hashes, bloomFilterSize |-> bloomFilterSize,
     size |-> size, i |-> 0, curPosWithinVector |-> 0, indices |-> <<>>]

InitInterval ==
    /\ NoSort
    /\ \E size \in 1 .. MaxP :
       \E bloomFilterSize \in 1 .. MaxFilter :
       \E n \in 0 .. MaxHashes :
       \E hashes \in HashVectors(n, bloomFilterSize) :
           intervalCall = IntervalCall(hashes, bloomFilterSize, size)
    /\ twoSeq = NoCall
    /\ exchangeCall = NoCall
    /\ shuffleCall = NoCall
    /\ locateCall = NoCall
    /\ pickCall = NoCall
    /\ pipelineCall = NoCall
    /\ mergeCall = NoCall
    /\ sortLocallyCall = NoCall
    /\ compareCall = NoCall
    /\ isSortedCall = NoCall

\* one iteration of the loop: the hashes up to the limit of PE i, from
\* curPosWithinVector on, are the interval of PE i
IntervalLoop ==
    /\ intervalCall.pc = "for"
    /\ intervalCall.i < intervalCall.size
    /\ LET f == intervalCall
           pos == upper_bound_hashes(
                      f.hashes, f.curPosWithinVector,
                      Len(f.hashes) - f.curPosWithinVector,
                      upperPartitionLimit(f.i, f.bloomFilterSize, f.size))
       IN  intervalCall' =
               [f EXCEPT !.indices = Append(@, pos - f.curPosWithinVector),
                         !.curPosWithinVector = pos,
                         !.i = @ + 1]
    /\ UNCHANGED <<sortVars, twoSeq, exchangeCall, shuffleCall, locateCall,
                   pickCall, pipelineCall, mergeCall, sortLocallyCall,
                   compareCall, isSortedCall>>

\* return indices
IntervalReturn ==
    /\ intervalCall.pc = "for"
    /\ intervalCall.i = intervalCall.size
    /\ intervalCall' = [intervalCall EXCEPT !.pc = "returned"]
    /\ UNCHANGED <<sortVars, twoSeq, exchangeCall, shuffleCall, locateCall,
                   pickCall, pipelineCall, mergeCall, sortLocallyCall,
                   compareCall, isSortedCall>>

NextInterval ==
    \/ IntervalLoop
    \/ IntervalReturn

SpecInterval == InitInterval /\ [][NextInterval]_vars

\* ------------------------------------------------------------------------
\* Data::exchange with large buffers.  Only the sizes of the buffers are
\* kept.  A size_t is the record [hi, lo] with the value hi * 2^31 + lo and
\* 0 <= lo <= INT_MAX; the number of elements of indices is [hi, lo] with
\* the value hi * (2^31 / sizeof(uint64_t)) + lo.  exchangeCall holds the
\* sizes of the buffers of the rank, the counts of the messages it has
\* posted and the sizes its partner has received.
\* ------------------------------------------------------------------------

\* INT_MAX, the largest value of the int count of MPI_Isend and of recv_size
IntMax == 2147483647

\* the size_t values of the model have hi <= MaxHigh
MaxHigh == 3

\* rawStrings.size()
RawSizes == {[hi |-> h, lo |-> l] : h \in 0 .. MaxHigh,
                                    l \in {0, 1, sizeofIndex, IntMax}}

\* indices.size()
IndexSizes == {[hi |-> h, lo |-> l] : h \in 0 .. MaxHigh, l \in 0 .. 2}

\* indices.size() * sizeof(uint64_t)
indexBytes(n) == [hi |-> n.hi, lo |-> n.lo * sizeofIndex]

\* the int a size_t is converted to where it is passed as the count of
\* MPI_Isend: its low 32 bits in two's complement
as_count(size) == IF size.hi % 2 = 0 THEN size.lo ELSE size.lo - IntMax - 1

\* the frame at the entry of exchange(comm, target, tag)
LargeCall(indexed, rawSize, numIndices) ==
    [pc |-> "MPI_Isend", indexed |-> indexed, rawSize |-> rawSize,
     numIndices |-> numIndices, sent |-> <<>>, received |-> <<>>]

InitLarge ==
    /\ NoSort
    /\ twoSeq = NoCall
    /\ \E rawSize \in RawSizes :
          \/ exchangeCall = LargeCall(FALSE, rawSize, [hi |-> 0, lo |-> 0])
          \/ \E numIndices \in IndexSizes :
                 exchangeCall = LargeCall(TRUE, rawSize, numIndices)
    /\ shuffleCall = NoCall
    /\ locateCall = NoCall
    /\ pickCall = NoCall
    /\ pipelineCall = NoCall
    /\ mergeCall = NoCall
    /\ sortLocallyCall = NoCall
    /\ compareCall = NoCall
    /\ isSortedCall = NoCall
    /\ intervalCall = NoCall

\* the counts of the calls of MPI_Isend: of rawStrings and, when indexed, of
\* indices
countsOf(f) ==
    IF f.indexed
    THEN <<as_count(f.rawSize), as_count(indexBytes(f.numIndices))>>
    ELSE <<as_count(f.rawSize)>>

\* the calls of MPI_Isend the library accepts: those before the first
\* negative count
RECURSIVE accepted(_)
accepted(counts) ==
    IF counts = <<>> \/ Head(counts) < 0 THEN <<>>
    ELSE <<Head(counts)>> \o accepted(Tail(counts))

\* the rank posts its sends.  A negative count is the error MPI_ERR_COUNT,
\* and the error handler of the communicator, MPI_ERRORS_ARE_FATAL, aborts.
LargeIsend ==
    /\ exchangeCall.pc = "MPI_Isend"
    /\ \E counts \in {countsOf(exchangeCall)} :
       \E posted \in {accepted(counts)} :
           exchangeCall' =
               [exchangeCall EXCEPT
                   !.sent = posted,
                   !.pc = IF Len(posted) < Len(counts) THEN "aborted"
                          ELSE "MPI_Probe"]
    /\ UNCHANGED <<sortVars, twoSeq, shuffleCall, locateCall, pickCall, pipelineCall, mergeCall, sortLocallyCall, compareCall, isSortedCall, intervalCall>>

\* the partner probes the messages, resizes its buffers to the counts of
\* MPI_Get_count and receives; MPI_Waitall returns
LargeProbe ==
    /\ exchangeCall.pc = "MPI_Probe"
    /\ exchangeCall' = [exchangeCall EXCEPT !.received = exchangeCall.sent,
                                            !.pc = "returned"]
    /\ UNCHANGED <<sortVars, twoSeq, shuffleCall, locateCall, pickCall, pipelineCall, mergeCall, sortLocallyCall, compareCall, isSortedCall, intervalCall>>

NextLarge ==
    \/ LargeIsend
    \/ LargeProbe

SpecLarge == InitLarge /\ [][NextLarge]_vars

\* ------------------------------------------------------------------------
\* locateSplitter on its own, with the StringComparator: locateCall holds
\* the arguments (the sorted table v, the splitter, is_robust), the bit the
\* call drew from the bit store and the position it returned.
\* ------------------------------------------------------------------------

\* the table of scenario S6, with a and b as the bytes 1 and 2, and its pivot
S6Table == SeqOfN(Elem(1), 4) \o SeqOfN(Elem(2), 5)

S6Pivot == Elem(2)

\* the tables and splitters locateSplitter is called with
LocateArguments ==
    {<<v, Elem(x)>> : v \in UNION {SortedSeqs(n) : n \in 0 .. MaxLen},
                      x \in 1 .. MaxVal}
    \cup {<<S6Table, S6Pivot>>}

\* the frame at the entry of locateSplitter(v, comp, splitter, gen,
\* bit_store, is_robust)
LocateCall(v, splitter, robust) ==
    [pc |-> "called", v |-> v, splitter |-> splitter, robust |-> robust,
     bit |-> 0, result |-> 0]

InitLocate ==
    /\ NoSort
    /\ twoSeq = NoCall
    /\ exchangeCall = NoCall
    /\ shuffleCall = NoCall
    /\ pickCall = NoCall
    /\ pipelineCall = NoCall
    /\ mergeCall = NoCall
    /\ sortLocallyCall = NoCall
    /\ compareCall = NoCall
    /\ isSortedCall = NoCall
    /\ intervalCall = NoCall
    /\ \E p \in LocateArguments, robust \in BOOLEAN :
           locateCall = LocateCall(p[1], p[2], robust)

\* the call returns; with is_robust it has drawn a bit if |v| is odd
LocateReturn ==
    /\ locateCall.pc = "called"
    /\ \E d \in drawIf(drawsRound(Len(locateCall.v), locateCall.robust),
                       Unseeded) :
           locateCall' =
               [locateCall EXCEPT
                   !.pc = "returned",
                   !.bit = d.bit,
                   !.result = locateSplitter(locateCall.v, locateCall.splitter,
                                             d.bit, locateCall.robust, FALSE)]
    /\ UNCHANGED <<sortVars, twoSeq, exchangeCall, shuffleCall, pickCall, pipelineCall, mergeCall, sortLocallyCall, compareCall, isSortedCall, intervalCall>>

NextLocate == LocateReturn

SpecLocate == InitLocate /\ [][NextLocate]_vars

\* ------------------------------------------------------------------------
\* shuffle on its own, by a group whose size is a power of two (the build
\* without OpenMP).  shuffleCall holds nprocs, the vector v of every rank at
\* the call and now, the phase and the position of every rank, and the
\* messages posted and not yet received.
\* ------------------------------------------------------------------------

\* sizeof(T) for the 64-bit elements shuffle is called with
sizeofT == sizeofIndex

\* the vectors of the ranks of a group of P: up to MaxTotal elements, cut
\* into consecutive parts
ShuffleInputs(P) ==
    UNION {{[r \in 0 .. (P - 1) |->
                LET mine == SelectSeq([i \in 1 .. n |-> i], LAMBDA i : o[i] = r)
                IN  [j \in 1 .. Len(mine) |-> g[mine[j]]]] :
              g \in [1 .. n -> 1 .. MaxVal], o \in Owners(n, P)} :
           n \in 0 .. MaxTotal}

\* where a rank is at the top of the loop over the phases, with
\* comm_phases = tlx::integer_log2_floor(nprocs)
loopTop(phase, nprocs) ==
    IF phase = integer_log2_floor(nprocs) THEN "returned" ELSE "partition"

\* the frame at the entry of shuffle(async_gen, v, v_tmp, mpi_type, tag, comm)
\* on every rank
ShuffleCall(nprocs, v) ==
    [pc |-> "called", nprocs |-> nprocs, before |-> v, v |-> v,
     phase |-> [r \in 0 .. (nprocs - 1) |-> 0],
     at |-> [r \in 0 .. (nprocs - 1) |-> loopTop(0, nprocs)],
     sent |-> {}]

InitShuffle ==
    /\ NoSort
    /\ twoSeq = NoCall
    /\ exchangeCall = NoCall
    /\ locateCall = NoCall
    /\ pickCall = NoCall
    /\ pipelineCall = NoCall
    /\ mergeCall = NoCall
    /\ sortLocallyCall = NoCall
    /\ compareCall = NoCall
    /\ isSortedCall = NoCall
    /\ intervalCall = NoCall
    /\ \E P \in {n \in 1 .. MaxP : is_power_of_two(n)} :
       \E v \in ShuffleInputs(P) :
           shuffleCall = ShuffleCall(P, v)

\* partner = myrank ^ mask with mask = 1 << phase
partnerIn(myrank, phase) ==
    IF (myrank \div (2 ^ phase)) % 2 = 0
    THEN myrank + 2 ^ phase
    ELSE myrank - 2 ^ phase

\* a partition that leaves the elements it sends in v as well
stay_all(v, bits) == [i \in 1 .. Len(v) |-> <<v[i], bits[i]>>]

\* the elements the partition loop copies to begins[0], the front of v
stay(v, bits) == SelectSeq([i \in 1 .. Len(v) |-> <<v[i], bits[i]>>],
                           LAMBDA e : e[2] = 0)

\* the elements the partition loop copies to begins[1], the buffer partition
leave(v, bits) == SelectSeq([i \in 1 .. Len(v) |-> <<v[i], bits[i]>>],
                            LAMBDA e : e[2] = 1)

\* the elements of a list of pairs of an element and its bit
elementsOf(pairs) == [i \in 1 .. Len(pairs) |-> pairs[i][1]]

\* the ranks running shuffle
ShuffleRanks == 0 .. (shuffleCall.nprocs - 1)

\* a rank draws a bit for every element of v, partitions v and posts the
\* elements with bit 1 to its partner, with the count in bytes
ShufflePartition(r) ==
    /\ shuffleCall.pc = "called"
    /\ shuffleCall.at[r] = "partition"
    /\ \E bits \in [1 .. Len(shuffleCall.v[r]) -> {0, 1}] :
       \E kept \in {elementsOf(stay(shuffleCall.v[r], bits))},
          part \in {elementsOf(leave(shuffleCall.v[r], bits))} :
           shuffleCall' =
               [shuffleCall EXCEPT
                   !.v[r] = kept,
                   !.at[r] = "MPI_Probe",
                   !.sent = @ \cup
                       {[source |-> r,
                         target |-> partnerIn(r, shuffleCall.phase[r]),
                         count |-> Len(part) * sizeofT,
                         elements |-> part]}]
    /\ UNCHANGED <<sortVars, twoSeq, exchangeCall, locateCall, pickCall, pipelineCall, mergeCall, sortLocallyCall, compareCall, isSortedCall, intervalCall>>

\* the message of the partner is there: the rank reads its count, divides it
\* by sizeof(T), resizes v to the elements it kept and count more, and
\* receives into the end of v.  MPI_Waitall returns, the receive is complete
\* and the send is buffered or received, and the rank goes to the next phase.
ShuffleReceive(r) ==
    /\ shuffleCall.pc = "called"
    /\ shuffleCall.at[r] = "MPI_Probe"
    /\ \E m \in shuffleCall.sent :
          /\ m.source = partnerIn(r, shuffleCall.phase[r])
          /\ m.target = r
          /\ \E count \in {m.count \div sizeofT} :
                 shuffleCall' =
                     [shuffleCall EXCEPT
                         !.v[r] = @ \o SubSeq(m.elements, 1, count),
                         !.phase[r] = @ + 1,
                         !.at[r] = loopTop(shuffleCall.phase[r] + 1,
                                           shuffleCall.nprocs),
                         !.sent = @ \ {m}]
    /\ UNCHANGED <<sortVars, twoSeq, exchangeCall, locateCall, pickCall, pipelineCall, mergeCall, sortLocallyCall, compareCall, isSortedCall, intervalCall>>

NextShuffle ==
    \/ \E r \in ShuffleRanks : ShufflePartition(r)
    \/ \E r \in ShuffleRanks : ShuffleReceive(r)

SpecShuffle == InitShuffle /\ [][NextShuffle]_vars

\* ------------------------------------------------------------------------
\* The result of sort
\* ------------------------------------------------------------------------

\* sort has returned on every rank of the group
AllReturned == \A r \in World : pc[r] = "returned"

\* the strings rank r holds in its container
Held(r) == container[r].strings

\* the strings rank r passed to sort
Given(r) == Views(input[r].rawStrings, input[r].indices, isIndexed)

\* the strings of all ranks in rank order
Output == Concat([i \in 1 .. worldSize |-> Held(i - 1)])

Input == Concat([i \in 1 .. worldSize |-> Given(i - 1)])

\* s and t hold the same elements with the same multiplicities
SameBag(s, t) ==
    /\ Len(s) = Len(t)
    /\ \A i \in 1 .. Len(s) : Count(s, s[i]) = Count(t, s[i])

\* lhs <= rhs under the comparator passed to sort
Leq(lhs, rhs) == ~Comp(isIndexed, rhs, lhs)

\* std::is_sorted under the comparator passed to sort
IsSorted(v) == \A i \in 1 .. (Len(v) - 1) : Leq(v[i], v[i + 1])

\* C1 -- Content preservation: when sort has returned on every rank, the
\* strings held by all ranks (with their origin indices in indexed mode) are
\* the strings of the local inputs, each as often as it was given.
C1_ContentPreservation == AllReturned => SameBag(Output, Input)

\* a run on three ranks has returned: the exile gave a string away in the
\* fold and a rank received a string in the exchange
C1_Witness ==
    /\ AllReturned
    /\ worldSize = 3
    /\ Len(Input) = MaxTotal
    /\ Given(2) # <<>>
    /\ \E r \in World : recvData[r].rawStrings # <<>>

\* C2 -- Global order: when sort has returned on every rank, every string of
\* rank i is <= every string of rank j for all ranks i < j of the group.
C2_GlobalOrder ==
    AllReturned =>
        \A i \in World, j \in World :
            i < j =>
                \A x \in 1 .. Len(Held(i)), y \in 1 .. Len(Held(j)) :
                    Leq(Held(i)[x], Held(j)[y])

\* a run on four ranks has returned with different strings on two ranks, the
\* smaller one on the lower rank
C2_Witness ==
    /\ AllReturned
    /\ worldSize = 4
    /\ \E i \in World, j \in World :
           /\ i < j
           /\ Held(i) # <<>>
           /\ Held(j) # <<>>
           /\ Held(i)[1].string # Held(j)[1].string

\* C3 -- Local order: the container sort returns on a rank is sorted
\* ascending under the comparator passed to sort.
C3_LocalOrder == \A r \in World : pc[r] = "returned" => IsSorted(Held(r))

\* a rank has returned with two different strings, one of them received from
\* its partner and merged with its own
C3_Witness ==
    \E r \in World :
        /\ pc[r] = "returned"
        /\ Len(Held(r)) = 2
        /\ Held(r)[1].string # Held(r)[2].string
        /\ Len(Views(recvData[r].rawStrings, <<>>, FALSE)) = 1

\* a process has died at a read whose behaviour is undefined
SomeAborted == \E r \in World : pc[r] = "aborted"

Q == round_down_to_power_of_two(worldSize)

\* the ranks that go on after the fold, and the exiles
Active == 0 .. (Q - 1)

Exiles == Q .. (worldSize - 1)

\* the fold has just taken place: the group is no power of two and the
\* active ranks have left MPI_Comm_split
Folded ==
    /\ ~is_power_of_two(worldSize)
    /\ \A r \in Active : pc[r] = "splitter_shuffle_Barrier"

\* C5 -- Fold conservation: after the fold of a group that is no power of
\* two, the active ranks [0..Q) hold the strings all P ranks held before,
\* each as often as before, and every exile holds no data and has returned
\* an empty container.
C5_FoldConservation ==
    Folded =>
        /\ SameBag(Concat([i \in 1 .. Q |-> Held(i - 1)]), Input)
        /\ \A r \in Exiles :
               /\ pc[r] = "returned"
               /\ data[r] = EmptyData
               /\ container[r] = EmptyContainer

\* three ranks have folded in indexed mode: the exile held a string and
\* rank 0 has appended it to a string of its own
C5_Witness ==
    /\ Folded
    /\ worldSize = 3
    /\ isIndexed
    /\ Given(2) # <<>>
    /\ Len(Held(0)) = 2

\* the positions between the fold and the first split of sortRec
AfterFold ==
    {"splitter_shuffle_Barrier", "Splitter_sortLocally_Barrier"}

\* C6 -- Fold post-condition: the communicator a rank uses for the shuffle,
\* the local sort and the recursion has size Q, the largest power of two
\* <= P, and holds the original ranks [0..Q) in their order; it is what
\* Comm_create_group(comm, 0, pow - 1) of the RBC variant gives; with P a
\* power of two it is the original communicator.
C6_FoldPostCondition ==
    \A r \in World :
        pc[r] \in AfterFold =>
            /\ Len(comm[r]) = Q
            /\ comm[r] = [i \in 1 .. Q |-> i - 1]
            /\ comm[r] = Comm_create_group(WorldComm, 0, Q - 1)
            /\ is_power_of_two(worldSize) => comm[r] = WorldComm

\* rank 1 of a group of three is about to sort locally in the communicator
\* of the ranks 0 and 1
C6_Witness ==
    /\ worldSize = 3
    /\ pc[1] = "Splitter_sortLocally_Barrier"
    /\ comm[1] = <<0, 1>>
    /\ pc[2] = "returned"

\* ------------------------------------------------------------------------
\* One level of sortRec
\* ------------------------------------------------------------------------

C8_StableIndexedOutput ==
    (isIndexed /\ AllReturned) =>
        \A i \in 1 .. Len(Output), j \in 1 .. Len(Output) :
            (i < j /\ Output[i].string = Output[j].string)
                => Output[i].index < Output[j].index

\* an indexed run has returned with two equal strings on different ranks
\* that were given in descending order of their indices
C8_Witness ==
    /\ isIndexed
    /\ AllReturned
    /\ Len(Input) = 2
    /\ Input[1].string = Input[2].string
    /\ Input[1].index > Input[2].index
    /\ \E i \in World, j \in World : i # j /\ Held(i) # <<>> /\ Held(j) # <<>>

\* the world rank of the partner of rank r in its communicator
Partner(r) == comm[r][partnerOf(rankIn(comm[r], r), Len(comm[r])) + 1]

\* Data::exchange has returned on rank r and on its partner
Exchanged(r) ==
    /\ pc[r] = "Splitter_merge_Barrier"
    /\ pc[Partner(r)] = "Splitter_merge_Barrier"
    /\ comm[Partner(r)] = comm[r]

\* the number of strings of a byte buffer
NumStrings(raw) == Len(SplitRaw(raw, <<>>))

\* C10 -- Pairwise exchange guarantee: when Data::exchange has returned on
\* two partners, the Data returned on each side holds the byte buffer the
\* partner sent and, in indexed mode, the indices the partner sent, one
\* index for every string of the received buffer.
C10_ExchangeGuarantee ==
    \A r \in World :
        Exchanged(r) =>
            /\ recvData[r].rawStrings = sentData[Partner(r)].rawStrings
            /\ isIndexed =>
                   /\ recvData[r].indices = sentData[Partner(r)].indices
                   /\ Len(recvData[r].indices) = NumStrings(recvData[r].rawStrings)

\* ------------------------------------------------------------------------
\* The preconditions of sortRec
\* ------------------------------------------------------------------------

\* the positions of sortRec behind its first barrier, where the group and the
\* order of the local strings are checked
InSortRec ==
    {"Splitter_median_select", "Splitter_partition_Barrier",
     "Splitter_exchange_Barrier", "MPI_Probe", "MPI_Waitall",
     "Splitter_merge_Barrier", "Splitter_split_Barrier", "Splitter_split"}

\* the positions of sortRec behind the return of selectSplitter
PivotSelected == InSortRec \ {"Splitter_median_select"}

\* C12 -- Precondition violations are fatal: no rank goes on in sortRec with
\* a group whose size is no power of two, with local strings that are not
\* sorted when the median selection starts, or with a selected pivot of
\* length < 1 (an empty pivot buffer); such a rank aborts.
C12_PreconditionFatal ==
    \A r \in World :
        /\ pc[r] \in InSortRec => is_power_of_two(Len(comm[r]))
        /\ pc[r] = "Splitter_median_select" => IsSorted(Held(r))
        /\ pc[r] \in PivotSelected => Len(pivot[r].rawStrings) >= 1

\* ------------------------------------------------------------------------
\* Two runs of sort
\* ------------------------------------------------------------------------

\* C11 -- Determinism modulo PRNG: when a group has run sort twice with the
\* same number of processes, the same local inputs and the same seed of the
\* generator on every rank, every rank holds after the second run the
\* container it held after the first, byte buffer and view table, whatever
\* the order in which the ranks ran and the messages arrived.
C11_Determinism ==
    (firstRun.done /\ AllReturned) =>
        \A r \in World : container[r] = firstRun.container[r]

\* the second run of a robust sort on four ranks has returned; a rank has
\* drawn a bit for its split position and has received a string
C11_Witness ==
    /\ firstRun.done
    /\ AllReturned
    /\ worldSize = MaxP
    /\ is_robust
    /\ \E r \in World : bit_store[r].drawn # 0
    /\ \E r \in World : recvData[r].rawStrings # <<>>

\* the size is larger than INT_MAX
Exceeds(size) == size.hi >= 1

\* C13 -- Message count overflow is fatal: a message of Data::exchange whose
\* byte count exceeds INT_MAX, the limit of the signed 32-bit count of the
\* messaging layer, is never posted with a truncated or wrapped count, and
\* the exchange does not return.
C13_CountOverflowFatal ==
    exchangeCall.pc # "none" =>
        /\ Exceeds(exchangeCall.rawSize) => exchangeCall.sent = <<>>
        /\ (exchangeCall.indexed
                /\ Exceeds(indexBytes(exchangeCall.numIndices))) =>
               Len(exchangeCall.sent) <= 1
        /\ (Exceeds(exchangeCall.rawSize)
                \/ (exchangeCall.indexed
                        /\ Exceeds(indexBytes(exchangeCall.numIndices)))) =>
               exchangeCall.pc # "returned"

\* every string of the input has the same bytes
AllEqual == \A i, j \in 1 .. Len(Input) : Input[i].string = Input[j].string

\* the largest number of strings a rank holds
MaxLocal ==
    CHOOSE m \in {Len(Held(r)) : r \in World} :
        \A r \in World : Len(Held(r)) <= m

div_ceil(a, b) == (a + b - 1) \div b

\* C14 -- Balance bound on degenerate input: when sort has returned on every
\* rank for an input of identical strings with is_robust on, no rank holds
\* more than ceil(n / P) + log2 P strings (one string per level of the
\* recursion for the O(log P) term), n the number of strings and P the size
\* of the group.
C14_BalanceBound ==
    (AllReturned /\ is_robust /\ AllEqual) =>
        MaxLocal <= div_ceil(Len(Input), worldSize)
                        + integer_log2_floor(worldSize)

\* C14, amended -- in plain (not indexed) mode no rank holds more than
\* ceil(n / Q) + log2 Q strings, Q the largest power of two that is at most
\* P: the ranks beyond Q return empty.
C14_BalanceBoundAmended ==
    (AllReturned /\ is_robust /\ AllEqual /\ ~isIndexed) =>
        MaxLocal <= div_ceil(Len(Input), Q) + integer_log2_floor(Q)

\* a group of MaxP has sorted equal strings that were on two of its ranks,
\* and every rank holds some of them
C14_Witness ==
    /\ AllReturned /\ is_robust /\ AllEqual /\ ~isIndexed
    /\ worldSize = MaxP
    /\ Len(Input) = 2 * MaxEqual
    /\ \A r \in World : Len(Held(r)) >= 1

\* the group was called with the input of the scenario
RunOf(sc) ==
    /\ worldSize = sc.P
    /\ isIndexed = sc.indexed
    /\ is_robust = sc.robust
    /\ input = sc.input

\* C17 -- All-equal scenario: with P = 4, is_robust on and four copies of
\* "eq" on every rank, every rank holds exactly four copies of "eq" when
\* sort has returned.
C17_AllEqualScenario ==
    (RunOf(S3) /\ AllReturned) =>
        \A r \in World : Held(r) = SeqOfN(Plain(eq), 4)

\* the scenario has run and the ranks have exchanged strings
C17_Witness ==
    /\ RunOf(S3) /\ AllReturned
    /\ \A r \in World : recvData[r].rawStrings # <<>>

\* C18 -- Already-sorted scenario: with P = 4 and the inputs [ant, bee],
\* [cat, dog], [eel, fox], [gnu, hen], every rank holds its input when sort
\* has returned, whatever the pivots and the tie-break bits.
C18_SortedScenario ==
    \A robust \in BOOLEAN :
        (RunOf(S1(robust)) /\ AllReturned) =>
            \A r \in World : Held(r) = S1Locals[r + 1]

\* C18, amended -- the strings the ranks hold, in the order of the ranks,
\* are ant, bee, cat, dog, eel, fox, gnu, hen; how many of them a rank holds
\* depends on the pivots.
C18_SortedScenarioAmended ==
    \A robust \in BOOLEAN :
        (RunOf(S1(robust)) /\ AllReturned) => Output = Concat(S1Locals)

\* the scenario has run and a rank holds other strings than it passed
C18_Witness ==
    /\ \E robust \in BOOLEAN : RunOf(S1(robust))
    /\ AllReturned
    /\ \E r \in World : Held(r) # S1Locals[r + 1]

\* C19 -- Indexed scenario: with P = 2 in indexed mode, rank 0 holding
\* (k, 7), (k, 3) and rank 1 holding (k, 1), (k, 5), sort returns
\* (k, 1), (k, 3) on rank 0 and (k, 5), (k, 7) on rank 1.
C19_IndexedScenario ==
    \A robust \in BOOLEAN :
        (RunOf(S4(robust)) /\ AllReturned) =>
            /\ Held(0) = <<K(1), K(3)>>
            /\ Held(1) = <<K(5), K(7)>>

\* C19, amended -- the result of the scenario with is_robust on
C19_IndexedScenarioAmended ==
    (RunOf(S4(TRUE)) /\ AllReturned) =>
        /\ Held(0) = <<K(1), K(3)>>
        /\ Held(1) = <<K(5), K(7)>>

\* the scenario has run with is_robust on and both ranks received strings
C19_Witness ==
    /\ RunOf(S4(TRUE)) /\ AllReturned
    /\ \A r \in World : recvData[r].rawStrings # <<>>

\* locateSplitter has returned for the table and the pivot of scenario S6
\* with is_robust on
ReturnedS6 ==
    /\ locateCall.pc = "returned"
    /\ locateCall.v = S6Table
    /\ locateCall.splitter = S6Pivot
    /\ locateCall.robust

\* C20 -- LocateSplitter robust scenario: for the sorted table
\* v = [a, a, a, a, b, b, b, b, b] and the pivot b with is_robust on,
\* locateSplitter returns the position 4, that of the first b.
C20_LocateSplitterScenario == ReturnedS6 => locateCall.result = 4

\* C20, amended -- locateSplitter returns 4 if the bit it draws is 0 and 5
\* if the bit is 1: |v| is odd, so the middle is 4 or 5.
C20_LocateSplitterScenarioAmended ==
    ReturnedS6 => locateCall.result = 4 + locateCall.bit

\* the call of the scenario has returned after it drew the bit 1
C20_Witness == ReturnedS6 /\ locateCall.bit = 1

\* shuffle has returned on every rank of the group
ShuffleReturned ==
    /\ shuffleCall.pc = "called"
    /\ \A r \in ShuffleRanks : shuffleCall.at[r] = "returned"

\* the elements of the vectors vs of the ranks, in the order of the ranks
ElementsOf(vs) ==
    Concat([i \in 1 .. shuffleCall.nprocs |-> vs[i - 1]])

\* s and t hold the same elements the same number of times
SameElements(s, t) ==
    \A x \in 1 .. MaxVal : Count(s, x) = Count(t, x)

\* C16 -- Shuffle preserves the element set: when shuffle has returned on
\* every rank of a group whose size is a power of two, the vectors of the
\* ranks together hold the elements they held at the call, each the same
\* number of times.
C16_ShufflePreserves ==
    ShuffleReturned =>
        SameElements(ElementsOf(shuffleCall.v), ElementsOf(shuffleCall.before))

\* a group of MaxP has shuffled MaxTotal elements and their distribution
\* over the ranks has changed
C16_Witness ==
    /\ ShuffleReturned
    /\ shuffleCall.nprocs = MaxP
    /\ Len(ElementsOf(shuffleCall.before)) = MaxTotal
    /\ \E r \in ShuffleRanks : shuffleCall.v[r] # shuffleCall.before[r]

\* the positions of a rank in sort and sortRec, in the order of the code;
\* the positions of one entry are those from which the next collective of
\* the rank is the same: a barrier, the median selection or a communicator
\* split
CollectiveOrder ==
    <<{"Splitter_baseCase_Barrier"},
      {"Splitter_baseCase"},
      {"Splitter_move_to_pow_of_two_t_Barrier"},
      {"Splitter_move_to_pow_of_two_t", "IReceiveAppend", "MPI_Send",
       "MPI_Send_indices", "MPI_Comm_split"},
      {"splitter_shuffle_Barrier"},
      {"Splitter_sortLocally_Barrier"},
      {"Splitter_median_select_Barrier"},
      {"Splitter_median_select"},
      {"Splitter_partition_Barrier"},
      {"Splitter_exchange_Barrier"},
      {"MPI_Probe", "MPI_Waitall", "Splitter_merge_Barrier"},
      {"Splitter_split_Barrier"},
      {"Splitter_split"}>>

\* the rank is inside sort
Running(r) == \E i \in 1 .. Len(CollectiveOrder) : pc[r] \in CollectiveOrder[i]

\* the number of the collective the rank waits at or is on its way to
NextCollective(r) ==
    CHOOSE i \in 1 .. Len(CollectiveOrder) : pc[r] \in CollectiveOrder[i]

\* C15 -- Ordering of collectives: unless a process has aborted, every member
\* of the communicator of a rank that is inside sort uses the same
\* communicator, is inside sort and waits at or is on its way to the same
\* collective: no rank waits at a barrier, a median selection or a
\* communicator split that another member has left out or will not reach.
C15_OrderingOfCollectives ==
    ~SomeAborted =>
        \A r \in World :
            Running(r) =>
                \A m \in Members(comm[r]) :
                    /\ comm[m] = comm[r]
                    /\ Running(m)
                    /\ NextCollective(m) = NextCollective(r)

\* the two halves of a split group of MaxP are at different collectives
C15_Witness ==
    \E r, m \in World :
        /\ Running(r) /\ Running(m)
        /\ Len(comm[r]) = MaxP \div 2
        /\ Len(comm[m]) = MaxP \div 2
        /\ comm[r] # comm[m]
        /\ NextCollective(r) > NextCollective(m) + 1

\* the bitwise exclusive or of two natural numbers
RECURSIVE BitXor(_, _)
BitXor(x, y) ==
    IF x = 0 /\ y = 0 THEN 0
    ELSE ((x + y) % 2) + 2 * BitXor(x \div 2, y \div 2)

\* the rank is past the exchange barrier of a level of sortRec, where the
\* partner has been computed
PartnerComputed(r) == pc[r] \in {"MPI_Probe", "MPI_Waitall", "Splitter_merge_Barrier"}

\* C29 -- Exchange partner: in a group of size N, a power of two >= 2, the
\* partner (myrank + N/2) mod N that a rank uses for the exchange equals
\* myrank XOR N/2, lies in the other half of the group, and the partner's
\* partner is the rank itself.
C29_ExchangePartner ==
    \A r \in World :
        PartnerComputed(r) =>
            LET nprocs == Len(comm[r])
                myrank == rankIn(comm[r], r)
                partner == partnerOf(myrank, nprocs)
            IN  /\ is_power_of_two(nprocs) /\ nprocs >= 2
                /\ partner = BitXor(myrank, nprocs \div 2)
                /\ partner \in 0 .. (nprocs - 1)
                /\ (partner < nprocs \div 2) # (myrank < nprocs \div 2)
                /\ partnerOf(partner, nprocs) = myrank

\* a rank of the upper half of a group of MaxP has sent to its partner
C29_Witness ==
    \E r \in World :
        /\ PartnerComputed(r)
        /\ Len(comm[r]) = MaxP
        /\ rankIn(comm[r], r) >= MaxP \div 2

\* the number of elements of the sorted table v that are smaller than s: the
\* lower bound of s in v
LowerBoundOf(v, s) ==
    Cardinality({i \in 1 .. Len(v) : StringComparator(v[i], s)})

\* the number of elements of the sorted table v that are not greater than s:
\* the upper bound of s in v
UpperBoundOf(v, s) ==
    Cardinality({i \in 1 .. Len(v) : ~StringComparator(s, v[i])})

\* the distance of two positions
Distance(x, y) == IF x < y THEN y - x ELSE x - y

\* C25 -- LocateSplitter rule: for a sorted table v and a pivot s with lower
\* bound L and upper bound U in v, locateSplitter returns L when is_robust is
\* off; when is_robust is on it returns min(opt, U) if L < opt and L
\* otherwise, opt being floor(|v|/2) plus the drawn bit when |v| is odd. The
\* result lies in [L, U], and with is_robust on no position of [L, U] is
\* closer to opt.
C25_LocateSplitterRule ==
    locateCall.pc = "returned" =>
        LET v == locateCall.v
            L == LowerBoundOf(v, locateCall.splitter)
            U == UpperBoundOf(v, locateCall.splitter)
            opt == (Len(v) \div 2) + (IF Len(v) % 2 = 1 THEN locateCall.bit ELSE 0)
            result == locateCall.result
        IN  /\ ~locateCall.robust => result = L
            /\ locateCall.robust =>
                   /\ result = IF L < opt THEN Min(opt, U) ELSE L
                   /\ \A q \in L .. U : Distance(result, opt) <= Distance(q, opt)
            /\ result \in L .. U

\* a robust call on a table of odd length has drawn the bit 1 and returned
\* a position strictly inside the range of the elements equal to the pivot
C25_Witness ==
    /\ locateCall.pc = "returned"
    /\ locateCall.robust
    /\ Len(locateCall.v) % 2 = 1
    /\ locateCall.bit = 1
    /\ LowerBoundOf(locateCall.v, locateCall.splitter) < locateCall.result
    /\ locateCall.result < UpperBoundOf(locateCall.v, locateCall.splitter)

\* ------------------------------------------------------------------------
\* middleMostElements on its own: pickCall holds the frame of one call
\* ------------------------------------------------------------------------

\* the largest container of distinct strings
MaxPick == 6

\* the largest number k of elements asked for
MaxK == 3

\* n strings of different lengths and with different indices, ascending
DistinctStrings(n) == [i \in 1 .. n |-> [string |-> SeqOfN(i, 1 + (i % 2)), index |-> 10 + i]]

\* the containers of the calls: sorted strings with repetitions, and
\* distinct strings
PickContainers(indexed) ==
    {update(RawOf(strs), IndicesOf(strs), indexed) :
        strs \in UNION {SortedSeqs(n) : n \in 0 .. MaxLen}
                 \cup {DistinctStrings(n) : n \in 0 .. MaxPick}}

\* the frame at the entry of middleMostElements(cont, k, async_gen, bit_gen)
PickCall(cont, k, indexed) ==
    [pc |-> "called", cont |-> cont, k |-> k, indexed |-> indexed,
     bit |-> 0, data |-> EmptyData]

InitPick ==
    /\ NoSort
    /\ twoSeq = NoCall
    /\ exchangeCall = NoCall
    /\ shuffleCall = NoCall
    /\ locateCall = NoCall
    /\ pipelineCall = NoCall
    /\ mergeCall = NoCall
    /\ sortLocallyCall = NoCall
    /\ compareCall = NoCall
    /\ isSortedCall = NoCall
    /\ intervalCall = NoCall
    /\ \E indexed \in BOOLEAN, k \in 1 .. MaxK :
           \E cont \in PickContainers(indexed) :
               pickCall = PickCall(cont, k, indexed)

\* the call returns; it has drawn a bit if the container holds more than k
\* strings and the parities of its size and of k differ
PickReturn ==
    /\ pickCall.pc = "called"
    /\ \E d \in drawIf(drawsShift(Len(pickCall.cont.strings), pickCall.k),
                       Unseeded) :
           pickCall' =
               [pickCall EXCEPT
                   !.pc = "returned",
                   !.bit = d.bit,
                   !.data = middleMostElements(pickCall.cont, pickCall.k,
                                               d.bit, pickCall.indexed)]
    /\ UNCHANGED <<sortVars, twoSeq, exchangeCall, shuffleCall, locateCall,
                   pipelineCall, mergeCall, sortLocallyCall, compareCall, isSortedCall, intervalCall>>

NextPick == PickReturn

SpecPick == InitPick /\ [][NextPick]_vars

\* C26 -- MiddleMostPicker: middleMostElements(c, k) returns a copy of all
\* of c when |c| <= k; otherwise it returns exactly the k consecutive
\* elements c[off + shift .. off + shift + k) with off = floor((|c| - k) / 2)
\* and shift = 0 when |c| and k have the same parity, else the drawn bit; the
\* range stays inside c, and the numbers of elements dropped below and above
\* it differ by at most one.
C26_MiddleMostPicker ==
    pickCall.pc = "returned" =>
        LET c == pickCall.cont.strings
            k == pickCall.k
            returned == Views(pickCall.data.rawStrings, pickCall.data.indices,
                              pickCall.indexed)
            off == (Len(c) - k) \div 2
            shift == IF Len(c) % 2 = k % 2 THEN 0 ELSE pickCall.bit
            below == off + shift
            above == Len(c) - (off + shift + k)
        IN  IF Len(c) <= k
            THEN /\ returned = c
                 /\ pickCall.data.rawStrings = pickCall.cont.raw
            ELSE /\ returned = [i \in 1 .. k |-> c[off + shift + i]]
                 /\ off + shift + k <= Len(c)
                 /\ Distance(below, above) <= 1

\* an indexed call with an even k on a container of odd size above k has
\* drawn the bit 1 and returned
C26_Witness ==
    /\ pickCall.pc = "returned"
    /\ pickCall.indexed
    /\ pickCall.k = 2
    /\ Len(pickCall.cont.strings) = 5
    /\ pickCall.bit = 1

\* the rank has entered a level of sortRec and not yet selected a pivot
AtLevelEntry(r) ==
    pc[r] \in {"Splitter_median_select_Barrier", "Splitter_median_select"}

\* C24 -- Level-entry invariant: at the entry of every level of sortRec, the
\* first call by sort and every recursive call, the local strings are
\* sorted ascending under the comparator and the size of the group is a
\* power of two >= 2.
C24_LevelEntry ==
    \A r \in World :
        AtLevelEntry(r) =>
            /\ IsSorted(Held(r))
            /\ is_power_of_two(Len(comm[r]))
            /\ Len(comm[r]) >= 2

\* a rank has entered a recursive call on a group of half of MaxP with the
\* largest number of strings
C24_Witness ==
    \E r \in World :
        /\ AtLevelEntry(r)
        /\ Len(comm[r]) = MaxP \div 2
        /\ worldSize = MaxP
        /\ Len(Held(r)) = MaxTotal

\* rank r leaves the barrier Splitter_merge_Barrier in this step: it merges,
\* which ends its level of sortRec
EndsLevel(r) ==
    pc[r] = "Splitter_merge_Barrier" /\ pc'[r] # "Splitter_merge_Barrier"

\* C23 -- Per-level partition: when a rank ends a level of sortRec on a
\* group of size N with pivot p, a rank of the left half (rank < N/2) holds
\* the strings [0..sep) it held before and its partner's [0..sep'), all of
\* them <= p under the comparator; a rank of the right half holds its
\* [sep..end) and its partner's [sep'..end), all of them >= p.
C23_PerLevelPartition ==
    [][\A r \in World :
          EndsLevel(r) =>
              LET left == rankIn(comm[r], r) < Len(comm[r]) \div 2
                  p == pivotStringOf(pivot[r], isIndexed)
                  v == container[r].strings
                  w == container[Partner(r)].strings
                  kept == IF left THEN SubSeq(v, 1, separator[r])
                          ELSE SubSeq(v, separator[r] + 1, Len(v))
                  got == IF left THEN SubSeq(w, 1, separator[Partner(r)])
                         ELSE SubSeq(w, separator[Partner(r)] + 1, Len(w))
                  held == container'[r].strings
              IN  /\ SameBag(held, kept \o got)
                  /\ \A i \in 1 .. Len(held) :
                         IF left THEN Leq(held[i], p) ELSE Leq(p, held[i])]_vars

\* a rank of a group of MaxP has ended a level with a string it kept and a
\* string of its partner
C23_Witness ==
    \E r \in World :
        /\ pc[r] = "Splitter_split_Barrier"
        /\ Len(comm[r]) = MaxP
        /\ Len(Held(r)) = 2
        /\ NumStrings(recvData[r].rawStrings) = 1

\* the positions of a rank inside sortRec
InLevel == InSortRec \cup {"Splitter_median_select_Barrier"}

\* C28 -- Recursion shape: sort calls sortRec on the folded group of size Q,
\* a power of two >= 2; a level on a group of size N >= 4 ends with a split
\* into the ranks [0..N/2) and [N/2..N), two disjoint groups of size N/2 in
\* the rank order of the group, on which the next level runs; the level with
\* N = 2 returns without a split; the group of a rank changes at no other
\* step of sortRec. Hence every rank runs the levels with the group sizes
\* Q, Q/2, ..., 2, which are log2(Q) levels.
C28_RecursionShape ==
    [][\A r \in World :
          LET c == comm[r]
              N == Len(c)
              lower == SubSeq(c, 1, N \div 2)
              upper == SubSeq(c, (N \div 2) + 1, N)
          IN  /\ (pc[r] \notin InLevel /\ pc'[r] \in InLevel) =>
                     /\ pc'[r] = "Splitter_median_select_Barrier"
                     /\ Len(comm'[r]) = Q
                     /\ is_power_of_two(Q) /\ Q >= 2
              /\ (pc[r] \in InLevel /\ pc'[r] \notin InLevel) =>
                     /\ \/ /\ pc[r] = "Splitter_merge_Barrier"
                           /\ N = 2
                           /\ pc'[r] = "returned"
                        \/ pc'[r] = "aborted"
                     /\ comm'[r] = c
              /\ (pc[r] = "Splitter_merge_Barrier" /\ N >= 4) =>
                     pc'[r] \in {"Splitter_merge_Barrier", "Splitter_split_Barrier"}
              /\ (pc[r] \in InLevel /\ pc'[r] \in InLevel) =>
                     IF pc[r] = "Splitter_split" /\ pc'[r] # pc[r]
                     THEN /\ pc'[r] = "Splitter_median_select_Barrier"
                          /\ N >= 4
                          /\ comm'[r] = IF rankIn(c, r) < N \div 2 THEN lower
                                        ELSE upper
                          /\ Len(comm'[r]) = N \div 2
                          /\ Members(lower) \cap Members(upper) = {}
                          /\ Members(lower) \cup Members(upper) = Members(c)
                     ELSE comm'[r] = c]_vars

\* a rank of the upper half of a group of MaxP has returned from the level
\* on a group of two
C28_Witness ==
    \E r \in World :
        /\ worldSize = MaxP
        /\ pc[r] = "returned"
        /\ Len(comm[r]) = 2
        /\ r >= MaxP \div 2

\* the positions of an exile in data.Send and of a receiver in
\* data.IReceiveAppend
FoldSending == {"MPI_Send", "MPI_Send_indices"}

FoldReceiving == {"Splitter_move_to_pow_of_two_t", "IReceiveAppend"}

\* the messages rank r of the group of sort posts, and the messages it
\* receives, in this step
PostedBy(r) ==
    {m \in network' \ network : m.comm = WorldComm /\ m.source = r}

ReceivedBy(r) ==
    {m \in network \ network' : m.comm = WorldComm /\ m.target = r}

\* the step the rank takes from the barrier of the fold
FoldRole(r) ==
    IF worldSize = Q THEN "splitter_shuffle_Barrier"
    ELSE IF r < worldSize - Q THEN "Splitter_move_to_pow_of_two_t"
    ELSE IF r >= Q THEN "MPI_Send"
    ELSE "MPI_Comm_split"

\* the positions from which the rank may call the MPI_Comm_split of the fold
BeforeFoldSplit(r) ==
    IF r < worldSize - Q
    THEN IF isIndexed THEN {"IReceiveAppend"} ELSE {"Splitter_move_to_pow_of_two_t"}
    ELSE IF r >= Q
    THEN IF isIndexed THEN {"MPI_Send_indices"} ELSE {"MPI_Send"}
    ELSE {"Splitter_move_to_pow_of_two_t_Barrier"}

\* what C30 says of one step of rank r
FoldStep(r) ==
    /\ pc[r] = "Splitter_move_to_pow_of_two_t_Barrier" /\ pc'[r] # pc[r] =>
           /\ pc'[r] = FoldRole(r)
           /\ ReceivedBy(r) = {}
           /\ IF r \in Exiles
              THEN PostedBy(r) = {Msg(WorldComm, r, r - Q, tag, data[r].rawStrings)}
              ELSE PostedBy(r) = {}
    /\ pc[r] = "MPI_Send" /\ pc'[r] # pc[r] =>
           /\ ReceivedBy(r) = {}
           /\ IF isIndexed
              THEN \E m \in network' :
                       /\ PostedBy(r) = {m}
                       /\ m.target = r - Q
                       /\ m.tag = tag + 1
              ELSE PostedBy(r) = {}
    /\ pc[r] \in {"MPI_Send_indices", "MPI_Comm_split"} =>
           PostedBy(r) = {} /\ ReceivedBy(r) = {}
    /\ pc[r] \in FoldReceiving /\ pc'[r] # pc[r] =>
           /\ PostedBy(r) = {}
           /\ \E m \in network :
                  /\ ReceivedBy(r) = {m}
                  /\ m.source = Q + r
                  /\ m.tag = IF pc[r] = "IReceiveAppend" THEN tag + 1 ELSE tag
    /\ pc'[r] \in FoldSending \cup FoldReceiving /\ pc'[r] # pc[r] =>
           \/ pc[r] = "Splitter_move_to_pow_of_two_t_Barrier"
           \/ isIndexed /\ pc[r] = "MPI_Send" /\ pc'[r] = "MPI_Send_indices"
           \/ isIndexed /\ pc[r] = "Splitter_move_to_pow_of_two_t"
                        /\ pc'[r] = "IReceiveAppend"
    /\ pc'[r] = "MPI_Comm_split" /\ pc'[r] # pc[r] => pc[r] \in BeforeFoldSplit(r)
    /\ pc[r] = "MPI_Comm_split" /\ pc'[r] # pc[r] =>
           \A m \in World :
               /\ comm[m] = WorldComm
               /\ pc[m] = "MPI_Comm_split"
               /\ pc'[m] # "MPI_Comm_split"

\* C30 -- Fold pairing: when P is no power of two, each exile r in [Q..P)
\* sends its data once, to rank r - Q, each rank in [0..P-Q) receives once,
\* from rank Q + rank, the ranks in [P-Q..Q) neither send nor receive, and
\* all P ranks take part in one and the same communicator split; when P is a
\* power of two no rank sends, receives or splits in the fold.
C30_FoldPairing ==
    /\ [](\A r \in World :
              /\ pc[r] \in FoldSending => r \in Exiles /\ worldSize # Q
              /\ pc[r] \in FoldReceiving => r < worldSize - Q
              /\ pc[r] = "MPI_Comm_split" => worldSize # Q)
    /\ [][\A r \in World : FoldStep(r)]_vars

\* the fold of three ranks in indexed mode is over: the exile has sent a
\* string and returned, the two others go on with the group of two
C30_Witness ==
    /\ worldSize = 3
    /\ isIndexed
    /\ pc[2] = "returned"
    /\ input[2].rawStrings # <<>>
    /\ pc[0] = "splitter_shuffle_Barrier"
    /\ pc[1] = "splitter_shuffle_Barrier"
    /\ Len(comm[0]) = 2

\* C27 -- Pivot is exactly one string: at every level of sortRec, also when
\* some or all ranks of the group hold no strings, the buffer selectSplitter
\* has returned holds exactly one zero-terminated string, and exactly one
\* index in indexed mode, so that pivot.rawStrings.size() - 1 does not
\* underflow and no empty buffer is read.
C27_PivotOneString ==
    \A r \in World :
        pc[r] \in PivotSelected =>
            /\ Len(pivot[r].rawStrings) >= 1
            /\ pivot[r].rawStrings[Len(pivot[r].rawStrings)] = 0
            /\ NumStrings(pivot[r].rawStrings) = 1
            /\ isIndexed => Len(pivot[r].indices) = 1

\* rank r passes the identifier id to measuringTool.start in this step
Starts(r, id) ==
    \E i \in 1 .. Len(measuringTool_start(pc[r], pc'[r])) :
        measuringTool_start(pc[r], pc'[r])[i] = id

\* in this step every rank that leaves the barrier in front of a phase
\* reports the phase under the identifier given for it, the fold under the
\* identifier fold
PhasesReported(fold) ==
    \A r \in World :
        pc'[r] # pc[r] =>
            /\ pc[r] = "Splitter_baseCase_Barrier" => Starts(r, "Splitter_baseCase")
            /\ pc[r] = "Splitter_move_to_pow_of_two_t_Barrier" => Starts(r, fold)
            /\ pc[r] = "splitter_shuffle_Barrier" => Starts(r, "Splitter_shuffle")
            /\ pc[r] = "Splitter_sortLocally_Barrier" =>
                   Starts(r, "Splitter_sortLocally")
            /\ pc[r] = "Splitter_median_select_Barrier" =>
                   Starts(r, "Splitter_median_select")
            /\ pc[r] = "Splitter_partition_Barrier" => Starts(r, "Splitter_partition")
            /\ pc[r] = "Splitter_exchange_Barrier" => Starts(r, "Splitter_exchange")
            /\ pc[r] = "Splitter_merge_Barrier" => Starts(r, "Splitter_merge")
            /\ pc[r] = "Splitter_split_Barrier" => Starts(r, "Splitter_split")

\* C22 -- Stable phase identifiers: the base case, the fold, the shuffle, the
\* local sort and the phases of a level of sortRec are reported to the
\* instrumentation as Splitter_baseCase, Splitter_move_to_pow_of_two,
\* Splitter_shuffle, Splitter_sortLocally, Splitter_median_select,
\* Splitter_partition, Splitter_exchange, Splitter_merge and Splitter_split.
C22_PhaseIdentifiers == [][PhasesReported("Splitter_move_to_pow_of_two")]_vars

\* C22, amended -- the fold is reported as Splitter_move_to_pow_of_two_t,
\* the other phases as stated.
C22_PhaseIdentifiersAmended ==
    [][PhasesReported("Splitter_move_to_pow_of_two_t")]_vars

\* rank 0 of a group of three has left the barrier of the fold, has reported
\* the fold and waits for the strings of the exile
C22_Witness ==
    /\ worldSize = 3
    /\ pc[0] = "Splitter_move_to_pow_of_two_t"
    /\ pc[2] = "MPI_Send"

\* ------------------------------------------------------------------------
\* AllToAllHashValuesPipeline::alltoallv on its own: pipelineCall holds the
\* frames of the calls of all PEs of a group
\* ------------------------------------------------------------------------

\* the number of consecutive calls of a PE
MaxRounds == 2

\* the number of values of the sample of GolombEncodingPipeline_test
sizePerPE == 3

\* the PEs of a group of the given size
PEs(size) == 0 .. (size - 1)

\* the intervals of the calls, intervals[p + 1][i + 1] being the interval PE
\* p addresses to PE i: the sample 0, 1, ... for every pair as in
\* GolombEncodingPipeline_test, and ascending intervals of 0 to 2 values
\* that differ from pair to pair
PipelineInputs(size) ==
    {[p \in 1 .. size |-> [i \in 1 .. size |-> [n \in 1 .. sizePerPE |-> n - 1]]],
     [p \in 1 .. size |-> [i \in 1 .. size |->
         [n \in 1 .. ((p + i) % 3) |-> 10 * p + i + 20 * (n - 1)]]]}

\* getDeltaEncoding(begin, end, out, b): the first value and the differences
\* of consecutive values
getDeltaEncoding(values) ==
    [n \in 1 .. Len(values) |->
        IF n = 1 THEN values[1] ELSE values[n] - values[n - 1]]

\* getDeltaDecoding(begin, end, out, b): the running sums
getDeltaDecoding(encoded) ==
    [n \in 1 .. Len(encoded) |-> SeqSum(SubSeq(encoded, 1, n))]

\* startIndices: 0 followed by the partial sums of intervalSizes
startIndicesOf(intervalSizes) ==
    [n \in 1 .. (Len(intervalSizes) + 1) |-> SeqSum(SubSeq(intervalSizes, 1, n - 1))]

\* the range [getStart(partnerId, ...), getEnd(partnerId, ...)) of sendData
intervalFor(partnerId, size, sendData, intervalSizes) ==
    LET startIndices == startIndicesOf(intervalSizes)
        getStart == startIndices[partnerId + 1]
        getEnd == IF partnerId + 1 = size THEN Len(sendData)
                  ELSE startIndices[partnerId + 2]
    IN  Range(sendData, getStart, getEnd)

\* partnerId of PE rank in the iteration j of the loops of alltoallv
partnerIdOf(rank, j, size) ==
    LET idlePE == ((size \div 2) * j) % (size - 1)
    IN  IF rank = size - 1 THEN idlePE
        ELSE IF rank = idlePE THEN size - 1
        ELSE ((j + size) - rank - 1) % (size - 1)

\* the buffer pointToPoint sends from PE rank to partnerId: the number of
\* encoded words, then the encoded interval
encodedValuesOf(rank, partnerId) ==
    LET ivs == pipelineCall.intervals[rank + 1]
        encoded == getDeltaEncoding(
                       intervalFor(partnerId, pipelineCall.nprocs, Concat(ivs),
                                   [i \in 1 .. Len(ivs) |-> Len(ivs[i])]))
    IN  <<Len(encoded)>> \o encoded

\* PE p has posted the sends of the call with the tag round
hasPosted(p, round) ==
    \/ pipelineCall.round[p] > round
    \/ /\ pipelineCall.round[p] = round
       /\ pipelineCall.at[p] \notin {"alltoall", "MPI_Isend"}

\* the flag of MPI_Test for the receive PE rank posted in the iteration j:
\* its n-th receive from partnerId under the tag is complete once the
\* partner has posted its n-th send to rank under the tag
testFlag(rank, j) ==
    LET size == pipelineCall.nprocs
        partnerId == partnerIdOf(rank, j, size)
        nth == Cardinality({i \in 0 .. j : partnerIdOf(rank, i, size) = partnerId})
        sends == Cardinality({i \in 0 .. (size - 2) :
                                 partnerIdOf(partnerId, i, size) = rank})
    IN  hasPosted(partnerId, pipelineCall.round[rank]) /\ sends >= nth

\* the for loop of the while loop from iteration j on: every receive not
\* yet seen whose flag is set is decoded behind decodedVectors[partnerId]
RECURSIVE testLoop(_, _, _)
testLoop(rank, j, frame) ==
    IF j >= pipelineCall.nprocs - 1 THEN frame
    ELSE IF j \notin frame.alreadyRecv /\ testFlag(rank, j)
    THEN LET partnerId == partnerIdOf(rank, j, pipelineCall.nprocs)
             received == encodedValuesOf(partnerId, rank)
             recvEncodedValuesSize == received[1]
         IN  testLoop(rank, j + 1,
                 [alreadyRecv |-> frame.alreadyRecv \cup {j},
                  decodedVectors |->
                      [frame.decodedVectors EXCEPT
                          ![partnerId + 1] =
                              @ \o getDeltaDecoding(
                                       SubSeq(received, 2, 1 + recvEncodedValuesSize))]])
    ELSE testLoop(rank, j + 1, frame)

\* the frames at the entry of alltoallv(sendData, intervalSizes) on every PE
PipelineCall(size, intervals) ==
    [pc |-> "called", nprocs |-> size, intervals |-> intervals,
     at |-> [p \in PEs(size) |-> "alltoall"],
     round |-> [p \in PEs(size) |-> 1],
     alreadyRecv |-> [p \in PEs(size) |-> {}],
     counter |-> [p \in PEs(size) |-> 0],
     decodedVectors |-> [p \in PEs(size) |-> <<>>]]

InitPipeline ==
    /\ NoSort
    /\ twoSeq = NoCall
    /\ exchangeCall = NoCall
    /\ shuffleCall = NoCall
    /\ locateCall = NoCall
    /\ pickCall = NoCall
    /\ mergeCall = NoCall
    /\ sortLocallyCall = NoCall
    /\ compareCall = NoCall
    /\ isSortedCall = NoCall
    /\ intervalCall = NoCall
    /\ \E size \in 1 .. MaxP :
       \E intervals \in PipelineInputs(size) :
           pipelineCall = PipelineCall(size, intervals)

PipelineRanks == IF pipelineCall.pc = "none" THEN {} ELSE PEs(pipelineCall.nprocs)

\* dsss::mpi::alltoall(intervalSizes) returns on every PE
PipelineAlltoall ==
    /\ pipelineCall.pc = "called"
    /\ \A p \in PipelineRanks : pipelineCall.at[p] = "alltoall"
    /\ pipelineCall' =
           [pipelineCall EXCEPT !.at = [p \in PipelineRanks |-> "MPI_Isend"]]
    /\ UNCHANGED <<sortVars, twoSeq, exchangeCall, shuffleCall, locateCall, pickCall,
                   mergeCall, sortLocallyCall, compareCall, isSortedCall, intervalCall>>

\* the loop of the calls of pointToPoint, which posts a send and a receive
\* for every iteration, and the copy of the PE's own interval
PipelinePost(rank) ==
    /\ pipelineCall.at[rank] = "MPI_Isend"
    /\ LET size == pipelineCall.nprocs
           ivs == pipelineCall.intervals[rank + 1]
           own == intervalFor(rank, size, Concat(ivs),
                              [i \in 1 .. size |-> Len(ivs[i])])
       IN  pipelineCall' =
               [pipelineCall EXCEPT
                   !.at[rank] = "MPI_Test",
                   !.alreadyRecv[rank] = {},
                   !.counter[rank] = 0,
                   !.decodedVectors[rank] =
                       [i \in 1 .. size |-> IF i = rank + 1 THEN own ELSE <<>>]]
    /\ UNCHANGED <<sortVars, twoSeq, exchangeCall, shuffleCall, locateCall, pickCall,
                   mergeCall, sortLocallyCall, compareCall, isSortedCall, intervalCall>>

\* one pass of the for loop of the while loop, up to the call of MPI_Waitall
PipelineTest(rank) ==
    /\ pipelineCall.at[rank] = "MPI_Test"
    /\ \E after \in {testLoop(rank, 0,
                         [alreadyRecv |-> pipelineCall.alreadyRecv[rank],
                          decodedVectors |-> pipelineCall.decodedVectors[rank]])} :
           pipelineCall' =
               [pipelineCall EXCEPT
                   !.at[rank] = "MPI_Waitall",
                   !.counter[rank] = Cardinality(pipelineCall.alreadyRecv[rank]),
                   !.alreadyRecv[rank] = after.alreadyRecv,
                   !.decodedVectors[rank] = after.decodedVectors]
    /\ UNCHANGED <<sortVars, twoSeq, exchangeCall, shuffleCall, locateCall, pickCall,
                   mergeCall, sortLocallyCall, compareCall, isSortedCall, intervalCall>>

\* MPI_Waitall returns when every receive of the PE is complete, the sends
\* being buffered; the loop ends if the pass found every receive seen
PipelineWaitall(rank) ==
    /\ pipelineCall.at[rank] = "MPI_Waitall"
    /\ \A j \in 0 .. (pipelineCall.nprocs - 2) : testFlag(rank, j)
    /\ pipelineCall' =
           [pipelineCall EXCEPT
               !.at[rank] = IF pipelineCall.counter[rank] = pipelineCall.nprocs - 1
                            THEN "returned" ELSE "MPI_Test"]
    /\ UNCHANGED <<sortVars, twoSeq, exchangeCall, shuffleCall, locateCall, pickCall,
                   mergeCall, sortLocallyCall, compareCall, isSortedCall, intervalCall>>

\* the PE calls alltoallv again with the same arguments: ++round
PipelineCallAgain(rank) ==
    /\ pipelineCall.at[rank] = "returned"
    /\ pipelineCall.round[rank] < MaxRounds
    /\ pipelineCall' =
           [pipelineCall EXCEPT
               !.at[rank] = "alltoall",
               !.round[rank] = @ + 1]
    /\ UNCHANGED <<sortVars, twoSeq, exchangeCall, shuffleCall, locateCall, pickCall,
                   mergeCall, sortLocallyCall, compareCall, isSortedCall, intervalCall>>

NextPipeline ==
    \/ PipelineAlltoall
    \/ \E rank \in PipelineRanks : PipelinePost(rank)
    \/ \E rank \in PipelineRanks : PipelineTest(rank)
    \/ \E rank \in PipelineRanks : PipelineWaitall(rank)
    \/ \E rank \in PipelineRanks : PipelineCallAgain(rank)

SpecPipeline == InitPipeline /\ [][NextPipeline]_vars

\* the vector alltoallv returned on PE rank holds one entry for every PE, the
\* entry of PE i being the interval PE i addressed to rank
Delivered(rank) ==
    /\ Len(pipelineCall.decodedVectors[rank]) = pipelineCall.nprocs
    /\ \A i \in PipelineRanks :
           pipelineCall.decodedVectors[rank][i + 1] =
               pipelineCall.intervals[i + 1][rank + 1]

\* C21 -- Pipelined all-to-all delivers every interval: when alltoallv is
\* called on every PE of a group of any size P with ascending intervals, the
\* vector it returns on a PE has exactly P entries, the i-th being, element
\* for element, the interval PE i addressed to the PE, each interval once;
\* and so again on a second consecutive call.
C21_PipelinedDelivery ==
    \A rank \in PipelineRanks :
        pipelineCall.at[rank] = "returned" => Delivered(rank)

\* int32_t nprocs of sort: MPI_Comm_size(comm, &nprocs) on the communicator
\* sort was called with; no later statement of sort assigns it, the fold
\* replaces comm only
sort_nprocs == worldSize

\* the rank is past the fold of sort, at the barrier that follows
\* assert(tlx::is_power_of_two(nprocs))
PastFold(r) == pc[r] = "splitter_shuffle_Barrier"

\* C31 -- Post-fold assertion: on every rank that reaches the assertion after
\* the fold step, the process count the assertion checks is a power of two,
\* for every initial group size P >= 2, powers of two or not.
C31_PostFoldAssertion ==
    \A r \in World : PastFold(r) => is_power_of_two(sort_nprocs)

\* the RBC variant asserts on comm.getSize() instead, the size of the
\* communicator the fold left: that one is a power of two on every rank
PostFoldCommSize ==
    \A r \in World : PastFold(r) => is_power_of_two(Len(comm[r]))

\* a receiver of the fold of the indexed instantiation has returned from
\* data.IReceiveAppend and is in the MPI_Comm_split that follows
AfterFoldAppend(r) ==
    /\ isIndexed
    /\ pc[r] = "MPI_Comm_split"
    /\ comm[r] = WorldComm
    /\ isReceiver(WorldComm, r)

\* C32 -- Index sequence after fold append: in indexed mode, after a receiver
\* has appended an exile's data in the fold, its index sequence holds exactly
\* one index per string of its byte buffer: the indices of its own strings
\* followed by the received ones in the order the exile sent them.
C32_FoldAppendIndices ==
    \A r \in World :
        AfterFoldAppend(r) =>
            LET source == PowOf(WorldComm) + r
            IN  /\ Len(data[r].indices) = Count(data[r].rawStrings, 0)
                /\ data[r].indices = input[r].indices \o input[source].indices

\* the rank of MPI_COMM_WORLD that is rank i of the communicator c
worldRankOf(c, i) == c[i + 1]

\* m was sent by Data::exchange: a level of sortRec runs on a group of a
\* power of two, Data::Send of the fold on a group that is none
SentByExchange(m) == is_power_of_two(Len(m.comm))

\* rank t is in the receives of Data::exchange of the level that runs on c
InExchangeOf(t, c) == pc[t] = "MPI_Probe" /\ comm[t] = c

\* rank t is in data.IReceiveAppend of the fold on c
InFoldReceiveOf(t, c) ==
    pc[t] \in {"Splitter_move_to_pow_of_two_t", "IReceiveAppend"} /\ comm[t] = c

\* the message m in flight is addressed to a rank that is in the receive the
\* message was sent for, and that receive names the sender of m as its source
AwaitedByItsReceive(m) ==
    LET t == worldRankOf(m.comm, m.target)
    IN  IF SentByExchange(m)
        THEN /\ InExchangeOf(t, m.comm)
             /\ partnerOf(m.target, Len(m.comm)) = m.source
        ELSE /\ InFoldReceiveOf(t, m.comm)
             /\ PowOf(m.comm) + m.target = m.source

\* the step takes m from the network in the receive m was sent for: its
\* target leaves the receive of the exchange of the level of m, or the
\* receive of the fold
TakenByItsReceive(m) ==
    LET t == worldRankOf(m.comm, m.target)
    IN  IF SentByExchange(m)
        THEN InExchangeOf(t, m.comm) /\ pc'[t] = "MPI_Waitall"
        ELSE InFoldReceiveOf(t, m.comm)
             /\ pc'[t] \in {"IReceiveAppend", "MPI_Comm_split"}

CeilOf(n, T) == CHOOSE s \in 0 .. n : s * T >= n /\ \A q \in 0 .. (s - 1) : q * T < n

\* the output positions the thread t of T has to write, of n:
\* [min(t * s, n), min((t + 1) * s, n)) with s = ceil(n / T)
OutputRange(t, T, n) ==
    Min(t * CeilOf(n, T), n) .. (Min((t + 1) * CeilOf(n, T), n) - 1)

\* the thread has computed s1_begin and s2_begin; s1_end and s2_end; has
\* returned from std::merge
HasBegin(id) == mergeCall.at[id] \in {"s_end", "std::merge", "done"}

HasEnd(id) == mergeCall.at[id] \in {"std::merge", "done"}

Merged(id) == mergeCall.at[id] = "done"

\* C34 -- Disjoint writes in the multi-threaded merge: for every thread count
\* T >= 1 and sorted A and B with n = |A| + |B|, thread t writes exactly the
\* output positions [min(t*s, n), min((t+1)*s, n)) with s = ceil(n/T); the
\* ranges are pairwise disjoint and together cover [0, n), and the slice
\* boundaries of every thread satisfy the assertions of the code: the
\* consumed prefixes sum to rank_begin and to rank_end, s1_begin <= s1_end
\* and s2_begin <= s2_end.
C34_DisjointWrites ==
    mergeCall.pc = "parallel" =>
        LET T == mergeCall.num_threads
            n == Len(mergeCall.A) + Len(mergeCall.B)
        IN  /\ \A t \in Threads :
                   /\ HasBegin(t) =>
                          mergeCall.s_begin[t][1] + mergeCall.s_begin[t][2]
                              = Min(t * CeilOf(n, T), n)
                   /\ HasEnd(t) =>
                          /\ mergeCall.s_begin[t][1] <= mergeCall.s_end[t][1]
                          /\ mergeCall.s_begin[t][2] <= mergeCall.s_end[t][2]
                          /\ mergeCall.s_end[t][1] <= Len(mergeCall.A)
                          /\ mergeCall.s_end[t][2] <= Len(mergeCall.B)
                          /\ mergeCall.s_end[t][1] + mergeCall.s_end[t][2]
                                 = Min((t + 1) * CeilOf(n, T), n)
                   /\ Merged(t) => mergeCall.written[t] = OutputRange(t, T, n)
            /\ \A t, u \in Threads :
                   t # u => /\ OutputRange(t, T, n) \cap OutputRange(u, T, n) = {}
                            /\ mergeCall.written[t] \cap mergeCall.written[u] = {}
            /\ UNION {OutputRange(t, T, n) : t \in Threads} = 0 .. (n - 1)
            /\ (\A t \in Threads : Merged(t)) =>
                   UNION {mergeCall.written[t] : t \in Threads} = 0 .. (n - 1)

\* three threads have merged four elements: the last thread's range is cut
\* to nothing by the minimum, the other two have written two positions each
C34_Witness ==
    /\ mergeCall.pc = "parallel"
    /\ mergeCall.num_threads = 3
    /\ Len(mergeCall.A) = 3
    /\ Len(mergeCall.B) = 1
    /\ \A t \in Threads : Merged(t)
    /\ mergeCall.written[0] = {0, 1}
    /\ mergeCall.written[2] = {}

\* every thread of the parallel region has returned from std::merge
AllMerged == mergeCall.pc = "parallel" /\ \A t \in Threads : Merged(t)

\* C35 -- Parallel merge equals serial merge: for all sorted A and B and
\* every thread count T >= 1 the multi-threaded merge writes the output of
\* the serial two-pointer merge of A and B: a sorted array of |A| + |B|
\* elements, the elements of A and B, in which among equal elements those of
\* A precede those of B.
C35_ParallelEqualsSerial ==
    AllMerged =>
        LET out == mergeCall.target
            A == mergeCall.A
            B == mergeCall.B
        IN  /\ out = std_merge(A, B, FALSE)
            /\ Len(out) = Len(A) + Len(B)
            /\ \A i \in 1 .. (Len(out) - 1) : ~StringComparator(out[i + 1], out[i])
            /\ {out[i] : i \in 1 .. Len(out)}
                   = {A[i] : i \in 1 .. Len(A)} \cup {B[i] : i \in 1 .. Len(B)}
            /\ \A i, j \in 1 .. Len(out) :
                   (i < j /\ out[i].string = out[j].string)
                       => out[i].index < out[j].index

\* three threads have merged sequences of three elements each that share a
\* value: equal elements of A and B meet in the output
C35_Witness ==
    /\ AllMerged
    /\ mergeCall.num_threads = 3
    /\ Len(mergeCall.A) = 3
    /\ Len(mergeCall.B) = 3
    /\ \E i, j \in 1 .. 3 : mergeCall.A[i].string = mergeCall.B[j].string
    /\ \E i \in 1 .. 3 : mergeCall.A[i].string # mergeCall.A[1].string

\* the strings at the 0-based positions [b, e) of the container have equal
\* content
EqualRun(strings, b, e) ==
    \A i \in (b + 1) .. e : strings[i].string = strings[b + 1].string

\* [b, e) is a maximal run of strings of equal content
MaximalRun(strings, b, e) ==
    /\ 0 <= b /\ b < e /\ e <= Len(strings)
    /\ EqualRun(strings, b, e)
    /\ b > 0 => strings[b].string # strings[b + 1].string
    /\ e < Len(strings) => strings[e + 1].string # strings[e].string

\* C36 -- DuplicateBreak: after sortLocally in indexed mode every maximal run
\* of strings of equal content is ordered by ascending origin index, the byte
\* buffer is unchanged and no (string, index) pair is lost or duplicated;
\* every range returned by getDuplicateRanges holds only strings of equal
\* content and every maximal equal run of two or more strings is one of the
\* ranges returned.
C36_DuplicateBreak ==
    sortLocallyCall.pc = "returned" =>
        LET out == sortLocallyCall.stringContainer.strings
            before == sortLocallyCall.before
            ranges == sortLocallyCall.ranges
            n == Len(out)
        IN  /\ \A i \in 1 .. (n - 1) :
                   out[i].string = out[i + 1].string => out[i].index < out[i + 1].index
            /\ sortLocallyCall.stringContainer.raw = RawOf(before)
            /\ n = Len(before)
            /\ {out[i] : i \in 1 .. n} = {before[i] : i \in 1 .. n}
            /\ \A k \in 1 .. Len(ranges) :
                   /\ ranges[k][1] <= ranges[k][2]
                   /\ ranges[k][2] <= n
                   /\ EqualRun(out, ranges[k][1], ranges[k][2])
            /\ \A b \in 0 .. n, e \in 0 .. n :
                   (MaximalRun(out, b, e) /\ e - b >= 2)
                       => \E k \in 1 .. Len(ranges) : ranges[k] = <<b, e>>

\* sortLocally has returned a container with two runs of equal strings,
\* "a" "a" and "ab" "ab", that it was called with in the order "ab" "a" "ab"
\* "a", the indices of the equal strings descending
C36_Witness ==
    /\ sortLocallyCall.pc = "returned"
    /\ sortLocallyCall.ranges = <<<<0, 2>>, <<2, 4>>>>
    /\ sortLocallyCall.stringContainer.strings[1].string = <<1>>
    /\ sortLocallyCall.stringContainer.strings[3].string = <<1, 2>>
    /\ sortLocallyCall.before[1].string = <<1, 2>>
    /\ sortLocallyCall.before[2].string = <<1>>
    /\ sortLocallyCall.before[1].index > sortLocallyCall.before[3].index
    /\ sortLocallyCall.before[2].index > sortLocallyCall.before[4].index

\* the lexicographic order of byte strings
RECURSIVE LexLess(_, _)
LexLess(a, b) ==
    IF b = <<>> THEN FALSE
    ELSE IF a = <<>> THEN TRUE
    ELSE IF Head(a) # Head(b) THEN Head(a) < Head(b)
    ELSE LexLess(Tail(a), Tail(b))

\* C37 -- Indexed comparator is total: IndexStringComparator is a strict
\* total order on indexed strings with pairwise distinct indices: it is
\* irreflexive and transitive, for two strings with different bytes it agrees
\* with the lexicographic byte order of StringComparator, for two strings
\* with identical bytes it orders by ascending index, and for a # b exactly
\* one of comp(a, b) and comp(b, a) holds.
C37_IndexedComparatorTotal ==
    compareCall.pc = "returned" =>
        LET x == compareCall.x
            comp == compareCall.indexed
        IN  /\ \A i \in 1 .. 3 : ~comp[i][i]
            /\ \A i, j, k \in 1 .. 3 : (comp[i][j] /\ comp[j][k]) => comp[i][k]
            /\ \A i, j \in 1 .. 3 :
                   /\ x[i].string # x[j].string =>
                          /\ comp[i][j] = compareCall.plain[i][j]
                          /\ comp[i][j] = LexLess(x[i].string, x[j].string)
                   /\ x[i].string = x[j].string =>
                          comp[i][j] = (x[i].index < x[j].index)
                   /\ x[i] # x[j] => (comp[i][j] # comp[j][i])

\* the comparator has returned for three strings with pairwise distinct
\* indices of which two have identical bytes and the third is a proper
\* extension of them
C37_Witness ==
    /\ compareCall.pc = "returned"
    /\ compareCall.x[1].string = <<1>>
    /\ compareCall.x[2].string = <<1>>
    /\ compareCall.x[3].string = <<1, 2>>
    /\ compareCall.x[1].index > compareCall.x[2].index
    /\ compareCall.x[3].index < compareCall.x[2].index

\* x < y on uint64_t
RECURSIVE Less64(_, _)
Less64(x, y) ==
    IF x = <<>> THEN FALSE
    ELSE IF Head(x) # Head(y) THEN Head(x) < Head(y)
    ELSE Less64(Tail(x), Tail(y))

\* (lhs, indexLhs) precedes (rhs, indexRhs) in the order of
\* IndexStringComparator: bytes lexicographically, then index ascending
Precedes(lhs, indexLhs, rhs, indexRhs) ==
    \/ LexLess(lhs, rhs)
    \/ lhs = rhs /\ Less64(indexLhs, indexRhs)

\* C38 -- Sign of indexStringCompare: for all zero-terminated byte strings
\* and all 64-bit indices, indexStringCompare(lhs, indexLhs, rhs, indexRhs)
\* is negative exactly when (lhs, indexLhs) precedes (rhs, indexRhs) in the
\* order 'bytes lexicographically, then index ascending', zero exactly when
\* bytes and indices are both equal, and positive otherwise: the 64-bit
\* index difference narrowed to int keeps its sign.
C38_IndexStringCompareSign ==
    compareCall.pc = "compared" =>
        LET lhs == compareCall.lhs
            rhs == compareCall.rhs
            indexLhs == compareCall.indexLhs
            indexRhs == compareCall.indexRhs
        IN  /\ (compareCall.res < 0) = Precedes(lhs, indexLhs, rhs, indexRhs)
            /\ (compareCall.res = 0) = (lhs = rhs /\ indexLhs = indexRhs)
            /\ (compareCall.res > 0) = Precedes(rhs, indexRhs, lhs, indexLhs)

\* the uint64_t d is less than 2^31
Below31(d) == d[1] = 0 /\ d[2] = 0 /\ d[3] < Digit \div 2

\* the indices differ by less than 2^31
Near(x, y) == IF Less64(x, y) THEN Below31(Sub64(y, x)) ELSE Below31(Sub64(x, y))

\* the sign is right whenever the bytes differ, and for equal bytes whenever
\* the indices differ by less than 2^31
IndexStringCompareSignNear ==
    compareCall.pc = "compared" =>
        LET lhs == compareCall.lhs
            rhs == compareCall.rhs
            indexLhs == compareCall.indexLhs
            indexRhs == compareCall.indexRhs
        IN  (lhs # rhs \/ Near(indexLhs, indexRhs)) =>
                /\ (compareCall.res < 0) = Precedes(lhs, indexLhs, rhs, indexRhs)
                /\ (compareCall.res = 0) = (lhs = rhs /\ indexLhs = indexRhs)

\* C39 -- The distributed sortedness check agrees on all PEs: for any number
\* of PEs and any local string sets, also when at most one PE holds strings,
\* is_sorted returns the same boolean on every PE.
C39_IsSortedAgrees ==
    \A p \in IsSortedPEs, q \in IsSortedPEs :
        (isSortedCall.at[p] = "returned" /\ isSortedCall.at[q] = "returned")
            => isSortedCall.result[p] = isSortedCall.result[q]

\* with strings on two PEs or more the PEs do agree
IsSortedAgreesWithData ==
    \A p \in IsSortedPEs, q \in IsSortedPEs :
        (/\ isSortedCall.at[p] = "returned"
         /\ isSortedCall.at[q] = "returned"
         /\ Cardinality({o \in IsSortedPEs : has_strings(o)}) >= 2)
            => isSortedCall.result[p] = isSortedCall.result[q]

\* C40 -- Hash partition covers all hashes: for every ascending sequence of
\* hash values in [0, bloomFilterSize) and every number of PEs P, also when
\* bloomFilterSize is not a multiple of P, computeIntervalSizes returns P
\* interval sizes whose sum is the number of hashes, so that every hash
\* value is assigned to exactly one PE.
C40_IntervalsCoverHashes ==
    intervalCall.pc = "returned" =>
        /\ Len(intervalCall.indices) = intervalCall.size
        /\ SeqSum(intervalCall.indices) = Len(intervalCall.hashes)

\* with a bloomFilterSize that is a multiple of the number of PEs, or less
\* than it, the interval sizes do sum to the number of hashes
IntervalsCoverMultiples ==
    (/\ intervalCall.pc = "returned"
     /\ \/ intervalCall.bloomFilterSize % intervalCall.size = 0
        \/ intervalCall.bloomFilterSize < intervalCall.size)
        => /\ Len(intervalCall.indices) = intervalCall.size
           /\ SeqSum(intervalCall.indices) = Len(intervalCall.hashes)

\* ------------------------------------------------------------------------
\* The result of twoSequenceSelection
\* ------------------------------------------------------------------------

\* the positions (a, b) a call has returned
ResultA == twoSeq.result[1]

ResultB == twoSeq.result[2]

\* C9 -- twoSequenceSelection: for sorted A and B and 0 <= k <= |A| + |B|
\* the call returns (a, b) with a + b = k, a <= |A| and b <= |B| such that
\* A[0..a) and B[0..b) are the k smallest elements, an element of A ranking
\* before an equal element of B: no element left in B is less than one
\* taken from A, and every element taken from B is less than every element
\* left in A.  For A = [1,3,5,7], B = [2,3,6,8] and k = 4 it returns (2, 2).
C9_TwoSequenceSelection ==
    twoSeq.pc = "returned" =>
        /\ ResultA + ResultB = twoSeq.k
        /\ ResultA \in 0 .. Len(twoSeq.A)
        /\ ResultB \in 0 .. Len(twoSeq.B)
        /\ \A i \in 1 .. ResultA, j \in (ResultB + 1) .. Len(twoSeq.B) :
               ~StringComparator(twoSeq.B[j], twoSeq.A[i])
        /\ \A j \in 1 .. ResultB, i \in (ResultA + 1) .. Len(twoSeq.A) :
               StringComparator(twoSeq.B[j], twoSeq.A[i])
        /\ (twoSeq.A = ExampleA /\ twoSeq.B = ExampleB /\ twoSeq.k = 4)
               => twoSeq.result = <<2, 2>>

\* the call of scenario S5 has returned
C9_Witness ==
    /\ twoSeq.pc = "returned"
    /\ twoSeq.A = ExampleA
    /\ twoSeq.B = ExampleB
    /\ twoSeq.k = 4

====
